---- MODULE Spec2Model ----
(***************************************************************************)
(* A model of the Resume-Parser pipeline (src/resume_parser.py,            *)
(* src/main.py, src/utils.py).                                             *)
(*                                                                         *)
(* Text is modelled at the level of tokens.  A line is a sequence of       *)
(* tokens (words, and the punctuation tokens "," "|" "@"), rendered with   *)
(* one blank before each token but the first and ","; a text is a          *)
(* sequence of lines;                                                      *)
(* a block (the '\n'.join of lines) is the token sequence with the token   *)
(* NL between the lines.  Substring tests of the source are made on whole  *)
(* tokens, plus the in-word containments listed in InWord.                 *)
(*                                                                         *)
(* src/resume_parser.py line 281 is indented deeper than the rest of its   *)
(* loop body; the model reads lines 281-318 as the body of the loop of     *)
(* line 280, which is the only reading under which the module loads.       *)
(* src/advanced_parser.py names Optional without importing it, so main.py  *)
(* loads only with that import added; the model reads main.py that way.    *)
(***************************************************************************)
EXTENDS Integers, Sequences, FiniteSets, TLC

VARIABLES
    patterns,      \* self.patterns: the tokens the 'email' and 'phone' patterns match
    skills_db,     \* self.skills_db: the categories, each with its skills, in order
    section_headers, \* self.section_headers: the keywords of each section, in order
    seg_text,      \* extract_sections: the lines of the input text
    seg_i,         \* extract_sections: index of the next line of the loop
    seg_st,        \* extract_sections: [sections, cur, acc] (sections, current_section, section_text)
    seg_pc,        \* extract_sections: "idle" | "loop" | "done"
    edu_lines,     \* extract_education: the lines of the input text
    edu_text,      \* extract_education: the block `edu_text` (lines 266-268)
    edu_pat,       \* extract_education: index of the degree pattern being scanned
    edu_pos,       \* extract_education: token index where the scan of finditer resumes
    education,     \* extract_education: the list `education`
    edu_ctxs,      \* extract_education: the context window of each entry of `education`
    edu_k,         \* extract_education: index of the next entry of the de-duplication loop
    edu_seen,      \* extract_education: the set `seen`
    edu_unique,    \* extract_education: the list `unique_education`
    edu_pc,        \* extract_education: "idle" | "match" | "dedup" | "done"
    exp_lines,     \* extract_experience: the lines of the input text
    exp_text,      \* extract_experience: the block `exp_text` (lines 336-345)
    job_splits,    \* extract_experience: the list `job_splits` (line 352)
    exp_j,         \* extract_experience: index of the next job_text of the loop of line 354
    experience,    \* extract_experience: the list `experience`
    exp_pc,        \* extract_experience: "idle" | "start" | "jobs" | "done"
    score_data,    \* calculate_score: the argument parsed_data
    scores,        \* calculate_score: the dict `scores`, in 1/ScoreScale points
    score_pc,      \* calculate_score: "idle" | "contact" | ... | "overall" | "done"
    parse_file,    \* parse: the file at file_path
    parse_text,    \* parse: the lines of `text`
    parse_sections, \* parse: the keys of `sections`
    parse_data,    \* parse: the dict `parsed_data`
    parse_exc,     \* parse: the exception raised inside the try block, if any
    parse_out,     \* parse: what the call hands to its caller, once it has ended
    batch_dir,     \* parse_multiple_resumes: the files of `directory`, in os.listdir order
    resume_files,  \* parse_multiple_resumes: the list `resume_files`
    batch_k,       \* parse_multiple_resumes: index of the next file of the loop of line 49
    results,       \* parse_multiple_resumes: the list `results`
    out_dir,       \* save_parsed_resume: the files of the output directory, by name
    batch_now,     \* the clock second
    csv,           \* export_to_csv: the rows of parsed_resumes.csv, once written
    batch_pc,      \* parse_multiple_resumes: "idle" | "list" | "parse" | "done"
    parse_trace,   \* parse: the methods called so far, in call order
    parse_pc,      \* parse: "idle" | "read" | "check" | the next extractor | "score" | "except" | "done"
    skl_text,      \* the text the extraction methods are called on
    skl_calls,     \* the calls made so far, each with its result
    nlp_text,      \* the text extract_name_nlp is called on
    nlp_persons,   \* the PERSON entities the recognizer reported
    nlp_name,      \* the value extract_name_nlp returns
    nlp_pc,        \* position in extract_name_nlp
    proj_lines,    \* extract_projects: the lines of the input text
    proj_text,     \* extract_projects: proj_text
    project_entries,\* extract_projects: project_entries
    proj_j,        \* extract_projects: index of the next project text
    projects,      \* extract_projects: projects
    proj_pc,       \* extract_projects: "idle" | "start" | "entries" | "done"
    lvl_names,     \* the names bound in the module of advanced_parser.py
    lvl_experience,\* analyze_experience_level: experience
    lvl_now,       \* what datetime.now() returns
    lvl_i,         \* analyze_experience_level: index of the next entry
    total_months,  \* analyze_experience_level: total_months
    lvl_out,       \* how the call ended: the returned label or the exception
    lvl_pc,        \* position in analyze_experience_level
    cli_env,       \* which packages and language model are installed
    cli_names,     \* the names bound in the module of advanced_parser.py
    cli_path,      \* what the path argument names
    cli_out,       \* what parse_single_resume returned to main
    cli_exit,      \* the exit code of the process, once it has ended
    cli_pc,        \* position of the run
    frames         \* the locals of each concurrent call of parse

table_vars == <<patterns, skills_db, section_headers>>
seg_vars == <<seg_text, seg_i, seg_st, seg_pc>>
edu_vars == <<edu_lines, edu_text, edu_pat, edu_pos, education, edu_ctxs, edu_k, edu_seen,
              edu_unique, edu_pc>>

exp_vars == <<exp_lines, exp_text, job_splits, exp_j, experience, exp_pc>>
score_vars == <<score_data, scores, score_pc>>
batch_vars == <<batch_dir, resume_files, batch_k, results, out_dir, batch_now, csv, batch_pc>>
parse_vars == <<parse_file, parse_text, parse_sections, parse_data, parse_exc, parse_out, parse_trace,
               parse_pc>>

skills_vars == <<skl_text, skl_calls>>

nlp_vars == <<nlp_text, nlp_persons, nlp_name, nlp_pc>>

proj_vars == <<proj_lines, proj_text, project_entries, proj_j, projects, proj_pc>>

level_vars == <<lvl_names, lvl_experience, lvl_now, lvl_i, total_months, lvl_out, lvl_pc>>

cli_vars == <<cli_env, cli_names, cli_path, cli_out, cli_exit, cli_pc>>

pool_vars == <<frames>>

\* What the steps of one function leave alone: the state of the others.
seg_rest == <<table_vars, edu_vars, exp_vars, score_vars, parse_vars, batch_vars, skills_vars, nlp_vars, proj_vars, level_vars, cli_vars, pool_vars>>
edu_rest == <<table_vars, seg_vars, exp_vars, score_vars, parse_vars, batch_vars, skills_vars, nlp_vars, proj_vars, level_vars, cli_vars, pool_vars>>
exp_rest == <<table_vars, seg_vars, edu_vars, score_vars, parse_vars, batch_vars, skills_vars, nlp_vars, proj_vars, level_vars, cli_vars, pool_vars>>
score_rest == <<table_vars, seg_vars, edu_vars, exp_vars, parse_vars, batch_vars, skills_vars, nlp_vars, proj_vars, level_vars, cli_vars, pool_vars>>
parse_rest == <<table_vars, seg_vars, edu_vars, exp_vars, score_vars, batch_vars, skills_vars, nlp_vars, proj_vars, level_vars, cli_vars, pool_vars>>
batch_rest == <<table_vars, seg_vars, edu_vars, exp_vars, score_vars, parse_vars, skills_vars, nlp_vars, proj_vars, level_vars, cli_vars, pool_vars>>
skills_rest == <<table_vars, seg_vars, edu_vars, exp_vars, score_vars, parse_vars, batch_vars, nlp_vars, proj_vars, level_vars, cli_vars, pool_vars>>
nlp_rest == <<table_vars, seg_vars, edu_vars, exp_vars, score_vars, parse_vars, batch_vars, skills_vars, proj_vars, level_vars, cli_vars, pool_vars>>
proj_rest == <<table_vars, seg_vars, edu_vars, exp_vars, score_vars, parse_vars, batch_vars, skills_vars, nlp_vars, level_vars, cli_vars, pool_vars>>
level_rest == <<table_vars, seg_vars, edu_vars, exp_vars, score_vars, parse_vars, batch_vars, skills_vars, nlp_vars, proj_vars, cli_vars, pool_vars>>
cli_rest == <<table_vars, seg_vars, edu_vars, exp_vars, score_vars, parse_vars, batch_vars, skills_vars, nlp_vars, proj_vars, level_vars, pool_vars>>
pool_rest == <<table_vars, seg_vars, edu_vars, exp_vars, score_vars, parse_vars, batch_vars, skills_vars, nlp_vars, proj_vars, level_vars, cli_vars>>
\* What a step of both the run and parse_multiple_resumes leaves alone.
rest_cli_batch == <<table_vars, seg_vars, edu_vars, exp_vars, score_vars, parse_vars, skills_vars, nlp_vars, proj_vars, level_vars, pool_vars>>

(***************************************************************************)
(* Optional values (Python None or a value).                               *)
(***************************************************************************)
None == [some |-> FALSE, val |-> <<>>]
Some(v) == [some |-> TRUE, val |-> v]
\* Python truthiness of an Optional[str]: None and '' are falsy.
Truthy(o) == o.some /\ o.val # <<>>

NL == "\n"

RECURSIVE SeqSum(_)
SeqSum(s) == IF s = <<>> THEN 0 ELSE Head(s) + SeqSum(Tail(s))

\* Number of elements of s equal to v.
Count(s, v) == Cardinality({i \in DOMAIN s : s[i] = v})

(***************************************************************************)
(* str.lower() on the tokens of the model.                                 *)
(***************************************************************************)
Lower(w) ==
    CASE w = "EXPERIENCE" -> "experience"
      [] w = "Experience" -> "experience"
      [] w = "EDUCATION" -> "education"
      [] w = "Education" -> "education"
      [] w = "Work" -> "work"
      [] w = "History" -> "history"
      [] w = "Skills" -> "skills"
      [] w = "PROJECTS" -> "projects"
      [] w = "CERTIFICATIONS" -> "certifications"
      [] w = "TXT" -> "txt"
      [] w = "Python" -> "python"
      [] w = "SQL" -> "sql"
      [] w = "Kotlin" -> "kotlin"
      [] w = "KOTLIN" -> "kotlin"
      [] w = "R" -> "r"
      [] w = "MySQL" -> "mysql"
      [] w = "Built" -> "built"
      [] w = "Tech" -> "tech"
      [] w = "Using:" -> "using:"
      [] w = "Technologies:" -> "technologies:"
      [] OTHER -> w

\* Containments of a keyword inside a longer (lower-cased) token.
InWord == { <<"technologies:", "technologies">> }

\* `kw in w` for a one-word keyword kw and a lower-cased token w.
WordHas(w, kw) == w = kw \/ <<w, kw>> \in InWord

\* `kw in line_lower`: the words of kw occur as consecutive tokens of line.
HasKeyword(line, kw) ==
    \E i \in 1..(Len(line) - Len(kw) + 1) :
        \A j \in 1..Len(kw) :
            IF j = Len(kw) /\ Len(kw) = 1
            THEN WordHas(Lower(line[i + j - 1]), kw[j])
            ELSE Lower(line[i + j - 1]) = kw[j]

(***************************************************************************)
(* self.section_headers, in declaration order (dict order is the order of  *)
(* the scan of line 152).                                                  *)
(***************************************************************************)
SectionNames ==
    <<"experience", "education", "skills", "projects", "certifications", "summary">>

SectionHeaders ==
    << << <<"experience">>, <<"employment">>, <<"work", "history">>,
          <<"professional", "experience">>, <<"career">> >>,
       << <<"education">>, <<"academic">>, <<"qualifications">>,
          <<"academic", "background">> >>,
       << <<"skills">>, <<"technical", "skills">>, <<"competencies">>,
          <<"expertise">>, <<"technologies">> >>,
       << <<"projects">>, <<"portfolio">>, <<"personal", "projects">> >>,
       << <<"certifications">>, <<"certificates">>, <<"licenses">> >>,
       << <<"summary">>, <<"objective">>, <<"profile">>, <<"about", "me">>,
          <<"professional", "summary">> >> >>

\* Lines 152-161: the first section (in order) one of whose keywords is in
\* the line; 0 when the line is no header.
MatchSection(line) ==
    LET hits == {s \in DOMAIN section_headers :
                    \E k \in DOMAIN section_headers[s] :
                        HasKeyword(line, section_headers[s][k])}
    IN IF hits = {} THEN 0 ELSE CHOOSE s \in hits : \A t \in hits : s <= t

(***************************************************************************)
(* '\n'.join(lines) and str.split('\n') on token sequences.                *)
(***************************************************************************)
RECURSIVE Join(_)
Join(lines) ==
    IF lines = <<>> THEN <<>>
    ELSE IF Len(lines) = 1 THEN lines[1]
    ELSE lines[1] \o <<NL>> \o Join(Tail(lines))

RECURSIVE SplitFrom(_, _)
SplitFrom(cur, toks) ==
    IF toks = <<>> THEN <<cur>>
    ELSE IF Head(toks) = NL THEN <<cur>> \o SplitFrom(<<>>, Tail(toks))
    ELSE SplitFrom(Append(cur, Head(toks)), Tail(toks))

Split(toks) == SplitFrom(<<>>, toks)

\* dict assignment sections[k] = v.
DictPut(d, k, v) == [x \in DOMAIN d \cup {k} |-> IF x = k THEN v ELSE d[x]]

\* dict.get(k, '').
DictGet(d, k) == IF k \in DOMAIN d THEN d[k] ELSE <<>>

EmptyDict == [x \in {} |-> <<>>]

(***************************************************************************)
(* extract_sections, lines 139-170.                                        *)
(***************************************************************************)
SegStart == [sections |-> EmptyDict, cur |-> "header", acc |-> <<>>]

\* Lines 155-156 and 167-168: save the accumulated lines under the current label.
SegSave(st) ==
    IF st.acc # <<>> THEN DictPut(st.sections, st.cur, Join(st.acc)) ELSE st.sections

\* One iteration of the loop of line 147.
SegLine(st, line) ==
    LET m == MatchSection(line)
    IN IF m # 0
       THEN [sections |-> SegSave(st), cur |-> SectionNames[m], acc |-> <<>>]
       ELSE [st EXCEPT !.acc = Append(@, line)]

RECURSIVE SegLoop(_, _)
SegLoop(st, lines) ==
    IF lines = <<>> THEN st ELSE SegLoop(SegLine(st, Head(lines)), Tail(lines))

extract_sections(lines) == SegSave(SegLoop(SegStart, lines))

(***************************************************************************)
(* Specification of the segmenter: one step per line of the loop.          *)
(***************************************************************************)
MaxSegLines == 4

SegLineSet ==
    { <<"Jane", "Doe">>, <<"EXPERIENCE">>, <<"Work", "History">>, <<"Education">>,
      <<"Built", "services">>, <<>> }

\* text.split('\n') has at least one line.
SegTexts == UNION {[1..n -> SegLineSet] : n \in 1..MaxSegLines}

SegIdle ==
    /\ seg_text = <<>>
    /\ seg_i = 1
    /\ seg_st = SegStart
    /\ seg_pc = "idle"

SegInit ==
    /\ seg_text \in SegTexts
    /\ seg_i = 1
    /\ seg_st = SegStart
    /\ seg_pc = "loop"

SegStep ==
    /\ seg_pc = "loop"
    /\ seg_i <= Len(seg_text)
    /\ seg_st' = SegLine(seg_st, seg_text[seg_i])
    /\ seg_i' = seg_i + 1
    /\ UNCHANGED <<seg_text, seg_pc, seg_rest>>

SegFinish ==
    /\ seg_pc = "loop"
    /\ seg_i > Len(seg_text)
    /\ seg_st' = [seg_st EXCEPT !.sections = SegSave(seg_st)]
    /\ seg_pc' = "done"
    /\ UNCHANGED <<seg_text, seg_i, seg_rest>>

(***************************************************************************)
(* Character offsets of the tokens of a block.  A token is preceded by one *)
(* blank unless it starts a line or is a comma; PAD stands for a run of    *)
(* CtxWindow characters that are neither word characters nor white space.  *)
(***************************************************************************)
CtxWindow == 200
InstBefore == 50
InstAfter == 20
CurrentYear == 2026
MinYear == 1950

PAD == "-PAD-"

TokW(t) == IF t = NL THEN 1 ELSE IF t = PAD THEN CtxWindow ELSE Len(t)

Lead(toks, i) ==
    IF i = 1 \/ toks[i] = NL \/ toks[i] = "," THEN 0
    ELSE IF toks[i - 1] = NL THEN 0 ELSE 1

\* The end offsets of the tokens from i on, given that token i - 1 ends at `at`.
RECURSIVE TokEnds(_, _, _)
TokEnds(toks, i, at) ==
    IF i > Len(toks) THEN <<>>
    ELSE LET e == at + Lead(toks, i) + TokW(toks[i])
         IN <<e>> \o TokEnds(toks, i + 1, e)

\* A block with the end offsets of its tokens: d.toks and d.end (d.end[0] = 0).
Doc(toks) ==
    LET ends == TokEnds(toks, 1, 0)
    IN [toks |-> toks, end |-> [i \in 0..Len(toks) |-> IF i = 0 THEN 0 ELSE ends[i]]]

TokStart(d, i) == d.end[i] - TokW(d.toks[i])

TextLen(d) == d.end[Len(d.toks)]

\* Tokens that hold a character outside \w.
NonWordToks == {",", "|", "@", PAD, "GPA:", "3.8", "Technologies:", "-", "*", "1.", "3."}

\* The longest prefix of a token made of \w characters.
WordPrefix(t) ==
    CASE t = "GPA:" -> "GPA"
      [] t = "3.8" -> "3"
      [] t = "3." -> "3"
      [] t = "1." -> "1"
      [] t = "Technologies:" -> "Technologies"
      [] t \in NonWordToks -> ""
      [] OTHER -> t

\* A token of [\w\s] characters only.
IsWordOrSpace(t) == t \notin NonWordToks

\* str.strip() of a token sequence: leading and trailing line breaks go.
RECURSIVE Strip(_)
Strip(s) ==
    IF s = <<>> THEN s
    ELSE IF Head(s) = NL THEN Strip(Tail(s))
    ELSE IF s[Len(s)] = NL THEN Strip(SubSeq(s, 1, Len(s) - 1))
    ELSE s

Max(S) == CHOOSE x \in S : \A y \in S : y <= x
Min(S) == CHOOSE x \in S : \A y \in S : x <= y

(***************************************************************************)
(* extract_education, lines 261-329.                                       *)
(***************************************************************************)
\* degree_patterns (lines 271-276), case-insensitive and unanchored: the part
\* of token w that pattern p matches up to the end of w, "" when none.
DegreeHit(p, w) ==
    CASE p = 1 /\ w = "Bachelor" -> "Bachelor"
      [] p = 1 /\ w = "MBA" -> "BA"
      [] p = 2 /\ w = "Master" -> "Master"
      [] p = 2 /\ w = "MBA" -> "MBA"
      [] p = 2 /\ w = "Diploma" -> "ma"
      [] p = 3 /\ w = "PhD" -> "PhD"
      [] p = 4 /\ w \in {"Associate", "Diploma", "Certificate"} -> w
      [] OTHER -> ""

NumDegreePatterns == 4

\* The keyword of a degree pattern must be followed by white space (\s+).
SpaceAfter(d, i) ==
    i < Len(d.toks) /\ (d.toks[i + 1] = NL \/ Lead(d.toks, i + 1) = 1)

\* re.finditer: the first token at or after `from` where pattern p matches; 0 when none.
NextMatch(p, d, from) ==
    LET hits == {i \in from..Len(d.toks) : DegreeHit(p, d.toks[i]) # "" /\ SpaceAfter(d, i)}
    IN IF hits = {} THEN 0 ELSE Min(hits)

\* The first token after i that ends the greedy [\w\s]+ of the pattern
\* (Len(d.toks) + 1 when the match runs to the end of the text).
RunStop(d, i) ==
    LET stops == {j \in (i + 1)..Len(d.toks) : ~IsWordOrSpace(d.toks[j])}
    IN IF stops = {} THEN Len(d.toks) + 1 ELSE Min(stops)

\* match.start() and match.end().
MatchStartOff(p, d, i) == d.end[i] - Len(DegreeHit(p, d.toks[i]))

MatchEndOff(d, i) ==
    LET j == RunStop(d, i)
    IN IF j > Len(d.toks) THEN TextLen(d)
       ELSE TokStart(d, j) + Len(WordPrefix(d.toks[j]))

\* match.group().strip(), line 281.
DegreeText(p, d, i) ==
    LET j == RunStop(d, i)
        pre == IF j <= Len(d.toks) /\ WordPrefix(d.toks[j]) # ""
               THEN <<WordPrefix(d.toks[j])>> ELSE <<>>
    IN Strip(<<DegreeHit(p, d.toks[i])>> \o SubSeq(d.toks, i + 1, j - 1) \o pre)

\* Lines 284-286: the tokens that lie whole inside edu_text[start:end], as
\* the range lo..hi of their indices (empty when lo > hi), with the offset of
\* the window's first character.
Context(p, d, i) ==
    LET s0 == MatchStartOff(p, d, i) - CtxWindow
        cs == IF s0 < 0 THEN 0 ELSE s0
        e0 == MatchEndOff(d, i) + CtxWindow
        ce == IF e0 > TextLen(d) THEN TextLen(d) ELSE e0
        inside == {k \in DOMAIN d.toks : TokStart(d, k) >= cs /\ d.end[k] <= ce}
    IN [start |-> cs,
        lo |-> IF inside = {} THEN 1 ELSE Min(inside),
        hi |-> IF inside = {} THEN 0 ELSE Max(inside)]

CtxToks(d, c) == SubSeq(d.toks, c.lo, c.hi)

\* inst_patterns, line 296.
inst_patterns == <<"University", "College", "Institute", "School", "Academy">>

\* Line 298 for one keyword: [\w\s]{1,50}KW[\w\s]{0,20}, leftmost match,
\* both quantifiers greedy; None when the keyword does not match.
InstMatch(d, c, kw) ==
    LET occ == {k \in c.lo..c.hi :
                   /\ d.toks[k] = kw
                   /\ TokStart(d, k) - 1 >= c.start
                   /\ (Lead(d.toks, k) = 1 \/ (k > 1 /\ d.toks[k - 1] = NL))}
    IN IF occ = {} THEN None
       ELSE LET k1 == Min(occ)
                \* the tokens before k1 that the leading [\w\s]{1,50} can cover
                before == {m \in c.lo..(k1 - 1) :
                              /\ \A n \in m..(k1 - 1) : IsWordOrSpace(d.toks[n])
                              /\ TokStart(d, k1) - TokStart(d, m) <= InstBefore}
                first == IF before = {} THEN k1 ELSE Min(before)
                \* greedy: the last occurrence the leading part still reaches
                reach == {k \in occ :
                             /\ \A n \in first..k : IsWordOrSpace(d.toks[n])
                             /\ TokStart(d, k) - TokStart(d, first) <= InstBefore}
                k2 == Max(reach \cup {k1})
                after == {m \in (k2 + 1)..c.hi :
                             /\ \A n \in (k2 + 1)..m : IsWordOrSpace(d.toks[n])
                             /\ d.end[m] - d.end[k2] <= InstAfter}
                last == IF after = {} THEN k2 ELSE Max(after)
            IN Some(Strip(SubSeq(d.toks, first, last)))

\* Lines 297-301: the first keyword, in the order of inst_patterns, that matches.
RECURSIVE InstFrom(_, _, _)
InstFrom(d, c, n) ==
    IF n > Len(inst_patterns) THEN None
    ELSE LET m == InstMatch(d, c, inst_patterns[n])
         IN IF m.some THEN m ELSE InstFrom(d, c, n + 1)

Institution(d, c) == InstFrom(d, c, 1)

\* The tokens \b(19|20)\d{2}\b matches.
YearToks == {"2015", "1949", "1998", "2031"}

\* The four-digit number a year token spells.
YearInt(t) ==
    CASE t = "2015" -> 2015
      [] t = "1949" -> 1949
      [] t = "1998" -> 1998
      [] t = "2031" -> 2031
      [] t = "2019" -> 2019
      [] t = "2020" -> 2020

\* int() of what re.findall returns for a match of patterns['year'] (line 27):
\* the pattern has one capturing group, (19|20), and findall returns the group.
YearFound(t) == YearInt(t) \div 100

\* Lines 304-311.
GradYear(d, c) ==
    LET year_matches == {k \in c.lo..c.hi : d.toks[k] \in YearToks}
        years == {YearFound(d.toks[k]) : k \in year_matches}
        valid_years == {y \in years : MinYear <= y /\ y <= CurrentYear}
    IN IF valid_years = {} THEN None ELSE Some(Max(valid_years))

\* Lines 314-316: (?:GPA|Grade|Score)[\s:]*(\d+\.?\d*).
GpaKeys == {"GPA", "GPA:", "Grade", "Score"}
NumToks == YearToks \cup {"3.8"}

Gpa(d, c) ==
    LET hits == {k \in c.lo..(c.hi - 1) : d.toks[k] \in GpaKeys /\ d.toks[k + 1] \in NumToks}
    IN IF hits = {} THEN None ELSE Some(d.toks[Min(hits) + 1])

\* Lines 288-318: the entry of the match of pattern p at token i.
EduEntry(p, d, i) ==
    LET c == Context(p, d, i)
    IN [degree |-> DegreeText(p, d, i),
        institution |-> Institution(d, c),
        year |-> GradYear(d, c),
        gpa |-> Gpa(d, c)]

\* Lines 264-268: the education block, or the full text when there is none.
EduText(lines) ==
    LET block == DictGet(extract_sections(lines), "education")
    IN IF block # <<>> THEN block ELSE Join(lines)

\* DedupStep without the test of line 325.
DedupStep_NoSeenTest(st, edu) ==
    LET key == <<edu.degree, edu.institution>>
    IN [seen |-> st.seen \cup {key}, unique |-> Append(st.unique, edu)]

\* Lines 323-327, one iteration: [seen, unique] after entry edu.
DedupStep(st, edu) ==
    LET key == <<edu.degree, edu.institution>>
    IN IF key \notin st.seen
       THEN [seen |-> st.seen \cup {key}, unique |-> Append(st.unique, edu)]
       ELSE st

RECURSIVE DedupLoop(_, _)
DedupLoop(st, list) ==
    IF list = <<>> THEN st ELSE DedupLoop(DedupStep(st, Head(list)), Tail(list))

\* Lines 278-318: the entries of pattern p from token `from` on.
RECURSIVE EntriesFrom(_, _, _)
EntriesFrom(p, d, from) ==
    LET i == NextMatch(p, d, from)
    IN IF i = 0 THEN <<>>
       ELSE <<EduEntry(p, d, i)>> \o EntriesFrom(p, d, RunStop(d, i))

RECURSIVE EntriesOfPatterns(_, _)
EntriesOfPatterns(p, d) ==
    IF p > NumDegreePatterns THEN <<>>
    ELSE EntriesFrom(p, d, 1) \o EntriesOfPatterns(p + 1, d)

extract_education(lines) ==
    DedupLoop([seen |-> {}, unique |-> <<>>],
              EntriesOfPatterns(1, Doc(EduText(lines)))).unique

(***************************************************************************)
(* Specification of extract_education: one step per degree match, then one *)
(* step per entry of the de-duplication loop.                              *)
(***************************************************************************)
MaxEduLines == 3

EduLineSet ==
    { <<"EDUCATION">>,
      <<"Bachelor", "of", "Science", "in", "Computer", "Science", ",",
        "State", "University", ",", "2015">>,
      <<"Bachelor", "of", "Arts">>,
      <<"Diploma", "in", "Arts", ",", "City", "College", ",", "1949", "GPA:", "3.8">>,
      <<"MBA", ",", "2031", "1998">>,
      <<PAD>> }

EduTexts == UNION {[1..n -> EduLineSet] : n \in 1..MaxEduLines}

EduIdle ==
    /\ edu_lines = <<>>
    /\ edu_text = <<>>
    /\ edu_pat = 1
    /\ edu_pos = 1
    /\ education = <<>>
    /\ edu_ctxs = <<>>
    /\ edu_k = 1
    /\ edu_seen = {}
    /\ edu_unique = <<>>
    /\ edu_pc = "idle"

EduInit ==
    /\ edu_lines \in EduTexts
    /\ edu_text = EduText(edu_lines)
    /\ edu_pat = 1
    /\ edu_pos = 1
    /\ education = <<>>
    /\ edu_ctxs = <<>>
    /\ edu_k = 1
    /\ edu_seen = {}
    /\ edu_unique = <<>>
    /\ edu_pc = "match"

\* Lines 280-318: the next match of the current pattern yields an entry.
EduMatch ==
    /\ edu_pc = "match"
    /\ LET d == Doc(edu_text)
           i == NextMatch(edu_pat, d, edu_pos)
       IN /\ i # 0
          /\ education' = Append(education, EduEntry(edu_pat, d, i))
          /\ edu_ctxs' = Append(edu_ctxs, CtxToks(d, Context(edu_pat, d, i)))
          /\ edu_pos' = RunStop(d, i)
    /\ UNCHANGED <<edu_lines, edu_text, edu_pat, edu_k, edu_seen, edu_unique, edu_pc, edu_rest>>

\* Line 278: the current pattern has no further match; the next pattern starts.
EduNextPattern ==
    /\ edu_pc = "match"
    /\ NextMatch(edu_pat, Doc(edu_text), edu_pos) = 0
    /\ edu_pat < NumDegreePatterns
    /\ edu_pat' = edu_pat + 1
    /\ edu_pos' = 1
    /\ UNCHANGED <<edu_lines, edu_text, education, edu_ctxs, edu_k, edu_seen, edu_unique, edu_pc,
                   edu_rest>>

\* Lines 320-322: all patterns are done; the de-duplication starts.
EduStartDedup ==
    /\ edu_pc = "match"
    /\ NextMatch(edu_pat, Doc(edu_text), edu_pos) = 0
    /\ edu_pat = NumDegreePatterns
    /\ edu_pc' = "dedup"
    /\ UNCHANGED <<edu_lines, edu_text, edu_pat, edu_pos, education, edu_ctxs, edu_k, edu_seen,
                   edu_unique, edu_rest>>

\* Lines 323-327: one iteration of the de-duplication loop.
EduDedup ==
    /\ edu_pc = "dedup"
    /\ edu_k <= Len(education)
    /\ LET st == DedupStep([seen |-> edu_seen, unique |-> edu_unique], education[edu_k])
       IN /\ edu_seen' = st.seen
          /\ edu_unique' = st.unique
    /\ edu_k' = edu_k + 1
    /\ UNCHANGED <<edu_lines, edu_text, edu_pat, edu_pos, education, edu_ctxs, edu_pc, edu_rest>>

\* Line 329.
EduReturn ==
    /\ edu_pc = "dedup"
    /\ edu_k > Len(education)
    /\ edu_pc' = "done"
    /\ UNCHANGED <<edu_lines, edu_text, edu_pat, edu_pos, education, edu_ctxs, edu_k, edu_seen,
                   edu_unique, edu_rest>>

EduNext == EduMatch \/ EduNextPattern \/ EduStartDedup \/ EduDedup \/ EduReturn

(***************************************************************************)
(* extract_experience, lines 331-418.                                      *)
(***************************************************************************)
\* Tokens that do not start with a \w character.
\* "*" stands for any of the bullet characters of line 407 other than "-".
BulletToks == {"*", "-"}
NoWordStart == BulletToks \cup {",", "|", "@", PAD}

\* Lines 339-345: the carve-out from the full text,
\* (?:experience|employment|work history)[\s:]*\n([\s\S]+?)(?=\n[A-Z]{2,}|education|skills|$)
\* with re.IGNORECASE, for texts whose lines holding one of the three
\* keywords end with it.  <<>> stands for "no match".
ExpKeywords == << <<"experience">>, <<"employment">>, <<"work", "history">> >>

HasExpKeyword(line) == \E k \in DOMAIN ExpKeywords : HasKeyword(line, ExpKeywords[k])

\* [A-Z]{2,} under IGNORECASE: the line starts with two letters.
StartsWithLetters(line) ==
    line # <<>> /\ line[1] \notin NoWordStart /\ line[1] \notin {"2019", "2020", "2015"}

StopWords == {"education", "skills"}

\* The tokens of a line before its first token that holds "education" or "skills".
RECURSIVE UpToStopWord(_)
UpToStopWord(line) ==
    IF line = <<>> THEN <<>>
    ELSE IF Lower(Head(line)) \in StopWords THEN <<>>
    ELSE <<Head(line)>> \o UpToStopWord(Tail(line))

CarveOut(lines) ==
    LET heads == {h \in DOMAIN lines : HasExpKeyword(lines[h])}
    IN IF heads = {} THEN <<>>
       ELSE LET h == Min(heads)
                full == {j \in (h + 1)..Len(lines) : lines[j] # <<>>}
            IN IF full = {}
               THEN \* only line breaks follow: the group is one "\n", if there are two
                    IF Len(lines) - h >= 2 THEN <<NL>> ELSE <<>>
               ELSE LET j == Min(full)
                        \* the first line at or after j that holds a stop word after
                        \* the group's first character, or whose successor starts
                        \* with two letters
                        cut == {m \in j..Len(lines) :
                                   \/ UpToStopWord(lines[m]) # lines[m]
                                   \/ m = Len(lines)
                                   \/ StartsWithLetters(lines[m + 1])}
                        m == Min(cut)
                        whole == SubSeq(lines, j, m - 1) \o <<UpToStopWord(lines[m])>>
                        \* $ also matches before a line break that ends the text
                        kept == IF m = Len(lines) /\ m > j /\ lines[m] = <<>>
                                THEN SubSeq(lines, j, m - 1) ELSE whole
                    IN Join(kept)

\* Lines 334-345.
ExpText(lines) ==
    LET block == DictGet(extract_sections(lines), "experience")
    IN IF block # <<>> THEN block ELSE CarveOut(lines)

\* Line 352: the keywords of the look-ahead of re.split (case-sensitive).
SplitKeywords ==
    {"Engineer", "Developer", "Manager", "Analyst", "Consultant", "Designer",
     "Specialist", "Director", "Lead", "Senior", "Junior"}

\* \n(?=\w+.*?KEYWORD): the line starts with a word character and holds a
\* keyword after its first token.
StartsJob(line) ==
    /\ line # <<>>
    /\ line[1] \notin NoWordStart
    /\ \E k \in 2..Len(line) : line[k] \in SplitKeywords

\* re.split of line 352 on the lines of exp_text: a new job text starts at
\* every line but the first that StartsJob.
RECURSIVE SplitJobs(_, _)
SplitJobs(cur, lines) ==
    IF lines = <<>> THEN <<Join(cur)>>
    ELSE IF StartsJob(Head(lines))
         THEN <<Join(cur)>> \o SplitJobs(<<Head(lines)>>, Tail(lines))
         ELSE SplitJobs(Append(cur, Head(lines)), Tail(lines))

JobSplits(block) ==
    LET lines == Split(block)
    IN SplitJobs(<<Head(lines)>>, Tail(lines))

\* Lines 374-377.
position_keywords ==
    <<"Engineer", "Developer", "Manager", "Analyst", "Consultant", "Designer",
      "Specialist", "Director", "Lead", "Architect", "Administrator", "Coordinator",
      "Executive", "Officer", "Scientist", "Researcher", "Intern", "Associate">>

\* The maximal run of [\w\s] tokens of the line around token i.
RunAround(line, i) ==
    LET lo == Min({a \in 1..i : \A n \in a..i : IsWordOrSpace(line[n])})
        hi == Max({b \in i..Len(line) : \A n \in i..b : IsWordOrSpace(line[n])})
    IN SubSeq(line, lo, hi)

\* Lines 379-385: the first keyword of the list that is in the line, and the
\* leftmost match of [\w\s]*KEYWORD[\w\s]* (IGNORECASE).
Position(first_line) ==
    LET found == {k \in DOMAIN position_keywords :
                     \E i \in DOMAIN first_line : first_line[i] = position_keywords[k]}
    IN IF found = {} THEN None
       ELSE LET keyword == position_keywords[Min(found)]
                at == Min({i \in DOMAIN first_line :
                              Lower(first_line[i]) = Lower(keyword)})
            IN Some(RunAround(first_line, at))

\* Tokens in which (?:at|@|\|) matches, and what follows the match inside the token.
AtToks == {"at", "At", "@", "|", "Data"}
AtRest(t) == IF t = "Data" THEN "a" ELSE ""

\* ([^,\n|]+) after the marker in token i; None when the group would be empty.
CompanyAt(line, i) ==
    LET stops == {j \in (i + 1)..Len(line) : line[j] \in {",", "|"}}
        stop == IF stops = {} THEN Len(line) + 1 ELSE Min(stops)
        body == SubSeq(line, i + 1, stop - 1)
    IN IF AtRest(line[i]) # "" THEN Some(<<AtRest(line[i])>> \o body)
       ELSE IF body # <<>> THEN Some(body)
       ELSE IF stop <= Len(line) /\ line[stop] = "|" THEN Some(<<>>)
       ELSE None

\* Lines 388-390: the leftmost marker with a non-empty group.
Company(first_line) ==
    LET hits == {i \in DOMAIN first_line :
                    first_line[i] \in AtToks /\ CompanyAt(first_line, i).some}
    IN IF hits = {} THEN None ELSE CompanyAt(first_line, Min(hits))

\* patterns['date'] (line 26) and the range of line 393, within one line.
MonthToks == {"Jan", "January", "Mar", "Dec"}
Year4Toks == {"2015", "2019", "2020", "1949", "1998", "2031"}
\* "-" stands for any of the three dashes of line 393.
DashToks == {"-"}

DateRangeAt(line, i) ==
    IF /\ i + 3 <= Len(line)
       /\ line[i] \in MonthToks /\ line[i + 1] \in Year4Toks /\ line[i + 2] \in DashToks
    THEN IF /\ i + 4 <= Len(line)
            /\ line[i + 3] \in MonthToks /\ line[i + 4] \in Year4Toks
         THEN Some(SubSeq(line, i, i + 4))
         ELSE IF line[i + 3] \in {"Present", "Current"}
              THEN Some(SubSeq(line, i, i + 3)) ELSE None
    ELSE None

RECURSIVE DurationFrom(_, _)
DurationFrom(lines, n) ==
    IF n > Len(lines) THEN None
    ELSE LET hits == {i \in DOMAIN lines[n] : DateRangeAt(lines[n], i).some}
         IN IF hits # {} THEN DateRangeAt(lines[n], Min(hits))
            ELSE DurationFrom(lines, n + 1)

\* Lines 393-396.
Duration(lines) == DurationFrom(lines, 1)

\* Lines 399-402: (?:,\s*|in\s+)([\w\s]+,\s*\w{2,}).
LocationAt(line, i) ==
    LET commas == {j \in (i + 2)..(Len(line) - 1) :
                      /\ line[j] = ","
                      /\ \A n \in (i + 1)..(j - 1) : IsWordOrSpace(line[n])
                      /\ IsWordOrSpace(line[j + 1]) /\ Len(line[j + 1]) >= 2}
    IN IF line[i] \in {",", "in"} /\ commas # {}
       THEN Some(SubSeq(line, i + 1, Min(commas) + 1)) ELSE None

Location(first_line) ==
    LET hits == {i \in DOMAIN first_line : LocationAt(first_line, i).some}
    IN IF hits = {} THEN None ELSE LocationAt(first_line, Min(hits))

\* Line 412: the limit on description lines.
DescLimit == 5

\* Tokens made only of the characters of [*\-\d.)\s] (line 409).
MarkerToks == BulletToks \cup Year4Toks \cup {"1.", "3.", "3.8"}

\* Line 407: the line starts with a bullet marker or with "N.".
IsBullet(line) == line # <<>> /\ line[1] \in BulletToks \cup {"1.", "3.", "3.8"}

\* Line 409: re.sub(r'^[*\-\d.)\s]+', '', line).strip().
RECURSIVE CleanBullet(_)
CleanBullet(line) ==
    IF line = <<>> THEN <<>>
    ELSE IF Head(line) \in MarkerToks THEN CleanBullet(Tail(line))
    ELSE line

\* Lines 405-413, one iteration.
DescLine(description, line) ==
    IF IsBullet(line)
    THEN IF CleanBullet(line) # <<>> THEN Append(description, CleanBullet(line))
         ELSE description
    ELSE IF line # <<>> /\ Len(description) < DescLimit THEN Append(description, line)
    ELSE description

RECURSIVE DescLoop(_, _)
DescLoop(description, lines) ==
    IF lines = <<>> THEN description
    ELSE DescLoop(DescLine(description, Head(lines)), Tail(lines))

\* Lines 358-413: the entry of one job text (not blank).
ExpEntry(job_text) ==
    LET lines == Split(Strip(job_text))
        first_line == lines[1]
    IN [position |-> Position(first_line),
        company |-> Company(first_line),
        duration |-> Duration(lines),
        location |-> Location(first_line),
        description |-> DescLoop(<<>>, Tail(lines))]

\* Retained without the test of line 415.
Retained_Always(exp_entry) == TRUE

\* Line 415.
Retained(exp_entry) == Truthy(exp_entry.position) \/ Truthy(exp_entry.company)

\* Lines 354-416, one iteration: the list after job_text.
JobStep(list, job_text) ==
    IF Strip(job_text) = <<>> THEN list
    ELSE IF Retained(ExpEntry(job_text)) THEN Append(list, ExpEntry(job_text))
    ELSE list

RECURSIVE JobLoop(_, _)
JobLoop(list, jobs) ==
    IF jobs = <<>> THEN list ELSE JobLoop(JobStep(list, Head(jobs)), Tail(jobs))

extract_experience(lines) ==
    IF ExpText(lines) = <<>> THEN <<>>
    ELSE JobLoop(<<>>, JobSplits(ExpText(lines)))

(***************************************************************************)
(* Specification of extract_experience: one step per job text.  The input  *)
(* texts are an optional EXPERIENCE header, up to MaxExpLines lines of     *)
(* ExpLineSet, up to MaxBullets bullet lines and up to MaxTail plain lines.*)
(***************************************************************************)
MaxExpLines == 2
MaxBullets == 6
MaxTail == 1

ExpHeader == <<"EXPERIENCE">>
BulletLine == <<"*", "Built", "services">>
PlainLine == <<"Worked", "alone">>

ExpLineSet ==
    { ExpHeader,
      <<"Senior", "Software", "Engineer", "at", "Acme", "Corp">>,
      <<"Data", "Team">>,
      <<"Acme", "Junior", "Staff">>,
      <<"Lead", "at", "|", "Partners">>,
      <<"Jan", "2020", "-", "Present">>,
      <<>> }

Rep(line, n) == [k \in 1..n |-> line]

ExpTexts ==
    { hd \o pre \o Rep(BulletLine, b) \o Rep(PlainLine, t) :
        hd \in {<<>>, <<ExpHeader>>},
        pre \in UNION {[1..n -> ExpLineSet] : n \in 0..MaxExpLines},
        b \in 0..MaxBullets,
        t \in 0..MaxTail } \ {<<>>}

ExpIdle ==
    /\ exp_lines = <<>>
    /\ exp_text = <<>>
    /\ job_splits = <<>>
    /\ exp_j = 1
    /\ experience = <<>>
    /\ exp_pc = "idle"

ExpInit ==
    /\ exp_lines \in ExpTexts
    /\ exp_text = ExpText(exp_lines)
    /\ job_splits = <<>>
    /\ exp_j = 1
    /\ experience = <<>>
    /\ exp_pc = "start"

\* Lines 347-348: no experience text, the result is [].
ExpNoText ==
    /\ exp_pc = "start"
    /\ exp_text = <<>>
    /\ exp_pc' = "done"
    /\ UNCHANGED <<exp_lines, exp_text, job_splits, exp_j, experience, exp_rest>>

\* Line 352.
ExpSplit ==
    /\ exp_pc = "start"
    /\ exp_text # <<>>
    /\ job_splits' = JobSplits(exp_text)
    /\ exp_pc' = "jobs"
    /\ UNCHANGED <<exp_lines, exp_text, exp_j, experience, exp_rest>>

\* Lines 355-356: a blank job text is skipped.
ExpSkipBlank ==
    /\ exp_pc = "jobs"
    /\ exp_j <= Len(job_splits)
    /\ Strip(job_splits[exp_j]) = <<>>
    /\ exp_j' = exp_j + 1
    /\ UNCHANGED <<exp_lines, exp_text, job_splits, experience, exp_pc, exp_rest>>

\* Lines 358-416: one job text yields an entry, which is appended if retained.
ExpJob ==
    /\ exp_pc = "jobs"
    /\ exp_j <= Len(job_splits)
    /\ Strip(job_splits[exp_j]) # <<>>
    /\ experience' = JobStep(experience, job_splits[exp_j])
    /\ exp_j' = exp_j + 1
    /\ UNCHANGED <<exp_lines, exp_text, job_splits, exp_pc, exp_rest>>

\* Line 418.
ExpReturn ==
    /\ exp_pc = "jobs"
    /\ exp_j > Len(job_splits)
    /\ exp_pc' = "done"
    /\ UNCHANGED <<exp_lines, exp_text, job_splits, exp_j, experience, exp_rest>>

ExpNext == ExpNoText \/ ExpSplit \/ ExpSkipBlank \/ ExpJob \/ ExpReturn

(***************************************************************************)
(* calculate_score, lines 509-544.  The scores are rationals; the model    *)
(* holds each score as an integer number of 1/ScoreScale points, which is  *)
(* exact for every value the function computes.                            *)
(***************************************************************************)
ScoreScale == 30
ScoreMax == 100
ExpPoints == 25
EduPoints == 50
SkillPoints == 5

contact_fields == <<"name", "email", "phone">>

\* Line 522: the contact fields of parsed_data holding a truthy value.
ContactCount(parsed_data) ==
    Cardinality({k \in DOMAIN contact_fields : Truthy(parsed_data.contact[contact_fields[k]])})

\* Line 523.
ContactScore(parsed_data) ==
    (ContactCount(parsed_data) * ScoreMax * ScoreScale) \div Len(contact_fields)

\* The cap without the min of lines 527, 531 and 535.
ScoreCap_Uncapped(points) == points

\* min(100, points), lines 527, 531 and 535.
ScoreCap(points) == IF points < ScoreMax THEN points ELSE ScoreMax

ExperienceScore(parsed_data) == ScoreCap(Len(parsed_data.experience) * ExpPoints) * ScoreScale
EducationScore(parsed_data) == ScoreCap(Len(parsed_data.education) * EduPoints) * ScoreScale
SkillsScore(parsed_data) == ScoreCap(Len(parsed_data.skills) * SkillPoints) * ScoreScale

\* Lines 538-543: weights 0.2, 0.3, 0.2, 0.3.
OverallScore(sc) ==
    (sc.contact_info * 2 + sc.experience * 3 + sc.education * 2 + sc.skills * 3) \div 10

\* Lines 511-517.
ZeroScores == [contact_info |-> 0, experience |-> 0, education |-> 0, skills |-> 0, overall |-> 0]

calculate_score(parsed_data) ==
    LET sc == [contact_info |-> ContactScore(parsed_data),
               experience |-> ExperienceScore(parsed_data),
               education |-> EducationScore(parsed_data),
               skills |-> SkillsScore(parsed_data),
               overall |-> 0]
    IN [sc EXCEPT !.overall = OverallScore(sc)]

(***************************************************************************)
(* Specification of calculate_score: one step per score.  The input is a   *)
(* parsed_data with each contact field present, empty or None, and lists   *)
(* of the given lengths.                                                   *)
(***************************************************************************)
MaxExperience == 5
MaxEducation == 3
MaxSkills == 21

ContactValues == {None, Some(<<>>), Some(<<"x">>)}

ScoreInputs ==
    [contact : [name : ContactValues, email : {None, Some(<<"x">>)}, phone : {None, Some(<<"x">>)}],
     experience : {Rep("e", n) : n \in 0..MaxExperience},
     education : {Rep("d", n) : n \in 0..MaxEducation},
     skills : {Rep("s", n) : n \in 0..MaxSkills}]

ScoreIdle ==
    /\ score_data = [contact |-> [name |-> None, email |-> None, phone |-> None],
                     experience |-> <<>>, education |-> <<>>, skills |-> <<>>]
    /\ scores = ZeroScores
    /\ score_pc = "idle"

ScoreInit ==
    /\ score_data \in ScoreInputs
    /\ scores = ZeroScores
    /\ score_pc = "contact"

ScoreContact ==
    /\ score_pc = "contact"
    /\ scores' = [scores EXCEPT !.contact_info = ContactScore(score_data)]
    /\ score_pc' = "experience"
    /\ UNCHANGED <<score_data, score_rest>>

ScoreExperience ==
    /\ score_pc = "experience"
    /\ scores' = [scores EXCEPT !.experience = ExperienceScore(score_data)]
    /\ score_pc' = "education"
    /\ UNCHANGED <<score_data, score_rest>>

ScoreEducation ==
    /\ score_pc = "education"
    /\ scores' = [scores EXCEPT !.education = EducationScore(score_data)]
    /\ score_pc' = "skills"
    /\ UNCHANGED <<score_data, score_rest>>

ScoreSkills ==
    /\ score_pc = "skills"
    /\ scores' = [scores EXCEPT !.skills = SkillsScore(score_data)]
    /\ score_pc' = "overall"
    /\ UNCHANGED <<score_data, score_rest>>

ScoreOverall ==
    /\ score_pc = "overall"
    /\ scores' = [scores EXCEPT !.overall = OverallScore(scores)]
    /\ score_pc' = "done"
    /\ UNCHANGED <<score_data, score_rest>>

ScoreNext == ScoreContact \/ ScoreExperience \/ ScoreEducation \/ ScoreSkills \/ ScoreOverall

(***************************************************************************)
(* Contact and skill extraction, lines 172-260, on the tokens of the       *)
(* model.  The model's vocabulary holds no profile link and no URL, so     *)
(* extract_linkedin, extract_github and extract_website return None.       *)
(***************************************************************************)
NameLines == 15
MinNameWords == 2
MaxNameWords == 4

EmailToks == {"jane@x.org"}
PhoneToks == {"555-123-4567"}
AtSignToks == {"@"} \cup EmailToks
DigitToks == YearToks \cup Year4Toks \cup PhoneToks \cup {"3.8", "1.", "3."}
LowerStartToks == {"of", "at", "in", "services", "alone"} \cup EmailToks
\* Tokens whose lower case holds one of the skip_words of line 197.
SkipWordToks == {"Curriculum", "Vitae", "Resume", "CV"}

\* The first token of the text that belongs to S, as Optional[str].
FirstTokIn(lines, S) ==
    LET toks == Join(lines)
        hits == {i \in DOMAIN toks : toks[i] \in S}
    IN IF hits = {} THEN None ELSE Some(<<toks[Min(hits)]>>)

\* len(line.split()): a comma is written next to the word before it.
WordCount(line) == Cardinality({i \in DOMAIN line : line[i] # ","})

\* Lines 193-207: the line is taken for the name.
NameLike(line) ==
    /\ line # <<>>
    /\ \A i \in DOMAIN line : line[i] \notin AtSignToks
    /\ \A i \in DOMAIN line : line[i] \notin SkipWordToks
    /\ MinNameWords <= WordCount(line) /\ WordCount(line) <= MaxNameWords
    /\ \A i \in DOMAIN line : line[i] \notin LowerStartToks
    /\ \A i \in DOMAIN line : line[i] \notin DigitToks

\* Lines 186-209.
extract_name(lines) ==
    LET hits == {i \in 1..Min({NameLines, Len(lines)}) : NameLike(lines[i])}
    IN IF hits = {} THEN None ELSE Some(lines[Min(hits)])

\* Lines 211-214.
extract_email(lines) == FirstTokIn(lines, patterns.email)

\* Lines 216-225: each phone token of the model has 10 digits.
extract_phone(lines) == FirstTokIn(lines, patterns.phone)

\* Lines 174-183.
extract_contact_info(lines) ==
    [name |-> extract_name(lines),
     email |-> extract_email(lines),
     phone |-> extract_phone(lines),
     linkedin |-> None,
     github |-> None,
     website |-> None]

(***************************************************************************)
(* _load_skills_database, lines 43-86, cut down to the skills the          *)
(* vocabulary can spell.  The categories are in declaration order, and     *)
(* 'kotlin' is listed under two of them, as in the source (lines 47, 76).  *)
(***************************************************************************)
load_skills_database ==
    << [category |-> "programming_languages", skills |-> <<"python", "kotlin", "r", "sql">>],
       [category |-> "databases", skills |-> <<"mysql">>],
       [category |-> "mobile", skills |-> <<"kotlin">>] >>

\* str.title() and str.upper() on the skills of the model.
Title(skill) ==
    CASE skill = "python" -> "Python"
      [] skill = "kotlin" -> "Kotlin"
      [] skill = "mysql" -> "Mysql"
      [] skill = "sql" -> "Sql"
      [] skill = "r" -> "R"
      [] OTHER -> skill

Upper(skill) ==
    CASE skill = "python" -> "PYTHON"
      [] skill = "kotlin" -> "KOTLIN"
      [] skill = "mysql" -> "MYSQL"
      [] skill = "sql" -> "SQL"
      [] skill = "r" -> "R"
      [] OTHER -> skill

\* Line 258: the name a found skill is reported under.
TitleMinLen == 3
Canonical(skill) == IF Len(skill) > TitleMinLen THEN Title(skill) ELSE Upper(skill)

\* The code points of a reported name: sorted() compares strings by them.
CodePoints(name) ==
    CASE name = "Python" -> <<80, 121, 116, 104, 111, 110>>
      [] name = "PYTHON" -> <<80, 89, 84, 72, 79, 78>>
      [] name = "python" -> <<112, 121, 116, 104, 111, 110>>
      [] name = "Kotlin" -> <<75, 111, 116, 108, 105, 110>>
      [] name = "KOTLIN" -> <<75, 79, 84, 76, 73, 78>>
      [] name = "kotlin" -> <<107, 111, 116, 108, 105, 110>>
      [] name = "Mysql" -> <<77, 121, 115, 113, 108>>
      [] name = "MYSQL" -> <<77, 89, 83, 81, 76>>
      [] name = "mysql" -> <<109, 121, 115, 113, 108>>
      [] name = "SQL" -> <<83, 81, 76>>
      [] name = "Sql" -> <<83, 113, 108>>
      [] name = "sql" -> <<115, 113, 108>>
      [] name = "R" -> <<82>>
      [] name = "r" -> <<114>>
      [] OTHER -> <<>>

\* a < b for str: at the first index where they differ a is smaller, or a is
\* a proper prefix of b.
StrLess(a, b) ==
    LET x == CodePoints(a)
        y == CodePoints(b)
    IN \E k \in 1..Len(y) :
        /\ \A j \in 1..(k - 1) : j <= Len(x) /\ x[j] = y[j]
        /\ k - 1 <= Len(x)
        /\ (k > Len(x) \/ x[k] < y[k])

\* sorted(list(S)) for a set S of names.
RECURSIVE SortedList(_)
SortedList(S) ==
    IF S = {} THEN <<>>
    ELSE LET m == CHOOSE x \in S : \A y \in S \ {x} : StrLess(x, y)
         IN <<m>> \o SortedList(S \ {m})

\* Line 257: re.search(r'\b' + skill + r'\b', text_lower).  The skills of
\* the model are single words and a token of the vocabulary holds a skill as
\* a whole word only when it is that word.
SkillFound(toks, skill) == \E i \in DOMAIN toks : Lower(toks[i]) = skill

\* Lines 254-258: the names added to found_skills, in the order of the two
\* loops, one for every (category, skill) pair that matches.
RECURSIVE AddedInCategory(_, _)
AddedInCategory(toks, skills) ==
    IF skills = <<>> THEN <<>>
    ELSE (IF SkillFound(toks, Head(skills)) THEN <<Canonical(Head(skills))>> ELSE <<>>)
         \o AddedInCategory(toks, Tail(skills))

RECURSIVE AddedSkills(_, _)
AddedSkills(toks, db) ==
    IF db = <<>> THEN <<>>
    ELSE AddedInCategory(toks, Head(db).skills) \o AddedSkills(toks, Tail(db))

\* A list that keeps what was added, in the order it was added.
SortedSet_AsAdded(added) == added

\* Lines 250, 258, 260: found_skills is a set, returned as a sorted list.
SortedSet(added) == SortedList({added[i] : i \in DOMAIN added})

\* Lines 248-260.
extract_skills(lines) == SortedSet(AddedSkills(Join(lines), skills_db))

(***************************************************************************)
(* extract_projects, lines 420-464.                                        *)
(***************************************************************************)
\* Line 430: the words of the look-ahead of re.split (case-sensitive).
ProjectWords == {"Project", "App", "System", "Platform", "Tool", "Website"}

\* \n(?=\w+.*?WORD): the line starts with a word character and holds one of
\* the words after its first token.
StartsProject(line) ==
    /\ line # <<>>
    /\ line[1] \notin NoWordStart
    /\ \E k \in 2..Len(line) : line[k] \in ProjectWords

\* re.split of line 430 on the lines of proj_text.
RECURSIVE SplitProjects(_, _)
SplitProjects(cur, lines) ==
    IF lines = <<>> THEN <<Join(cur)>>
    ELSE IF StartsProject(Head(lines))
         THEN <<Join(cur)>> \o SplitProjects(<<Head(lines)>>, Tail(lines))
         ELSE SplitProjects(Append(cur, Head(lines)), Tail(lines))

ProjectSplits(block) ==
    LET lines == Split(block)
    IN SplitProjects(<<Head(lines)>>, Tail(lines))

\* Line 451: the markers of a line that mentions technologies.
tech_markers == << <<"technologies:">>, <<"tech", "stack:">>, <<"built", "with:">>, <<"using:">> >>

MentionsTech(line) == \E k \in DOMAIN tech_markers : HasKeyword(line, tech_markers[k])

\* Containments of a skill inside a longer (lower-cased) token.
SkillInWord == { <<"mysql", "sql">> }

\* Line 456: skill.lower() in tech_text, a substring test.
InTechText(line, skill) ==
    \E i \in DOMAIN line : Lower(line[i]) = skill \/ <<Lower(line[i]), skill>> \in SkillInWord

\* Lines 454-457: what one tech-stack line appends to project['technologies'],
\* one element for every (category, skill) pair whose skill is in the line.
RECURSIVE TechInCategory(_, _)
TechInCategory(line, skills) ==
    IF skills = <<>> THEN <<>>
    ELSE (IF InTechText(line, Head(skills)) THEN <<Head(skills)>> ELSE <<>>)
         \o TechInCategory(line, Tail(skills))

RECURSIVE TechOfLine(_, _)
TechOfLine(line, db) ==
    IF db = <<>> THEN <<>>
    ELSE TechInCategory(line, Head(db).skills) \o TechOfLine(line, Tail(db))

\* Lines 445-459, one iteration.
ProjLine(project, line) ==
    IF line = <<>> THEN project
    ELSE IF MentionsTech(line)
         THEN [project EXCEPT !.technologies = @ \o TechOfLine(line, skills_db)]
         ELSE [project EXCEPT !.description = Append(@, line)]

RECURSIVE ProjLines(_, _)
ProjLines(project, lines) ==
    IF lines = <<>> THEN project
    ELSE ProjLines(ProjLine(project, Head(lines)), Tail(lines))

\* Lines 436-459: the entry of one project text (not blank).
ProjectEntry(proj) ==
    LET lines == Split(Strip(proj))
    IN ProjLines([name |-> lines[1], description |-> <<>>, technologies |-> <<>>],
                 Tail(lines))

\* Lines 432-462, one iteration: the list after proj.
ProjStep(list, proj) ==
    IF Strip(proj) = <<>> THEN list
    ELSE IF ProjectEntry(proj).name # <<>> THEN Append(list, ProjectEntry(proj))
    ELSE list

RECURSIVE ProjLoop(_, _)
ProjLoop(list, entries) ==
    IF entries = <<>> THEN list ELSE ProjLoop(ProjStep(list, Head(entries)), Tail(entries))

\* Lines 423-425.
ProjText(lines) == DictGet(extract_sections(lines), "projects")

extract_projects(lines) ==
    IF ProjText(lines) = <<>> THEN <<>>
    ELSE ProjLoop(<<>>, ProjectSplits(ProjText(lines)))

(***************************************************************************)
(* Specification of extract_projects: one step per project text.  The      *)
(* input texts are an optional PROJECTS header and up to MaxProjLines      *)
(* lines of ProjLineSet.                                                   *)
(***************************************************************************)
MaxProjLines == 3

ProjHeader == <<"PROJECTS">>
ProjLineSet ==
    { <<"Shop", "App">>,
      <<"Built", "with:", "Kotlin">>,
      <<"Using:", "Python", ",", "SQL">>,
      <<"Tech", "stack:", "MySQL">>,
      <<"Sells", "things">>,
      <<>> }

ProjTexts ==
    { hd \o body :
        hd \in {<<>>, <<ProjHeader>>},
        body \in UNION {[1..n -> ProjLineSet] : n \in 0..MaxProjLines} } \ {<<>>}

ProjIdle ==
    /\ proj_lines = <<>>
    /\ proj_text = <<>>
    /\ project_entries = <<>>
    /\ proj_j = 1
    /\ projects = <<>>
    /\ proj_pc = "idle"

ProjInit ==
    /\ proj_lines \in ProjTexts
    /\ proj_text = ProjText(proj_lines)
    /\ project_entries = <<>>
    /\ proj_j = 1
    /\ projects = <<>>
    /\ proj_pc = "start"

\* Lines 426-427: no projects text, the result is [].
ProjNoText ==
    /\ proj_pc = "start"
    /\ proj_text = <<>>
    /\ proj_pc' = "done"
    /\ UNCHANGED <<proj_lines, proj_text, project_entries, proj_j, projects, proj_rest>>

\* Line 430.
ProjSplit ==
    /\ proj_pc = "start"
    /\ proj_text # <<>>
    /\ project_entries' = ProjectSplits(proj_text)
    /\ proj_pc' = "entries"
    /\ UNCHANGED <<proj_lines, proj_text, proj_j, projects, proj_rest>>

\* Lines 433-434: a blank project text is skipped.
ProjSkipBlank ==
    /\ proj_pc = "entries"
    /\ proj_j <= Len(project_entries)
    /\ Strip(project_entries[proj_j]) = <<>>
    /\ proj_j' = proj_j + 1
    /\ UNCHANGED <<proj_lines, proj_text, project_entries, projects, proj_pc, proj_rest>>

\* Lines 436-462: one project text yields an entry, which is appended.
ProjEntry ==
    /\ proj_pc = "entries"
    /\ proj_j <= Len(project_entries)
    /\ Strip(project_entries[proj_j]) # <<>>
    /\ projects' = ProjStep(projects, project_entries[proj_j])
    /\ proj_j' = proj_j + 1
    /\ UNCHANGED <<proj_lines, proj_text, project_entries, proj_pc, proj_rest>>

\* Line 464.
ProjReturn ==
    /\ proj_pc = "entries"
    /\ proj_j > Len(project_entries)
    /\ proj_pc' = "done"
    /\ UNCHANGED <<proj_lines, proj_text, project_entries, proj_j, projects, proj_rest>>

ProjNext == ProjNoText \/ ProjSplit \/ ProjSkipBlank \/ ProjEntry \/ ProjReturn

(***************************************************************************)
(* extract_certifications, lines 466-507.                                  *)
(***************************************************************************)
CertMinLen == 5

\* Tokens that end with a match of (?:certifications?|certificates?).
CertWordToks == {"CERTIFICATIONS", "Certification"}

\* \n[A-Z]{2,} under IGNORECASE: the line starts with two letters.
StartsWithTwoLetters(line) ==
    line # <<>> /\ line[1] \notin NoWordStart \cup DigitToks \cup {"R"}

\* Lines 473-476: the group of
\* (?:certifications?|certificates?)[\s:]*\n([\s\S]+?)(?=\n[A-Z]{2,}|$)
\* in the full text, empty when there is no match.
CertCarveOut(lines) ==
    LET heads == {h \in DOMAIN lines :
                     lines[h] # <<>> /\ lines[h][Len(lines[h])] \in CertWordToks}
    IN IF heads = {} THEN <<>>
       ELSE LET h == Min(heads)
                full == {j \in (h + 1)..Len(lines) : lines[j] # <<>>}
            IN IF full = {}
               THEN IF Len(lines) - h >= 2 THEN <<NL>> ELSE <<>>
               ELSE LET j == Min(full)
                        cut == {m \in j..Len(lines) :
                                   m = Len(lines) \/ StartsWithTwoLetters(lines[m + 1])}
                        m == Min(cut)
                        kept == IF m = Len(lines) /\ m > j /\ lines[m] = <<>>
                                THEN SubSeq(lines, j, m - 1) ELSE SubSeq(lines, j, m)
                    IN Join(kept)

\* Lines 469-476.
CertText(lines) ==
    LET block == DictGet(extract_sections(lines), "certifications")
    IN IF block # <<>> THEN block ELSE CertCarveOut(lines)

\* Line 499, in list order, with the tokens that hold each issuer.
issuers == <<"Microsoft", "Google", "Amazon", "AWS", "Oracle", "Cisco", "CompTIA", "PMI", "Scrum">>
HoldsIssuer(tok, issuer) == tok = issuer

\* Lines 500-503.
Issuer(line) ==
    LET found == {k \in DOMAIN issuers : \E i \in DOMAIN line : HoldsIssuer(line[i], issuers[k])}
    IN IF found = {} THEN None ELSE Some(issuers[Min(found)])

\* Lines 493-496: re.search of patterns['year']; the name is the line without
\* the year.
CertYear(line) ==
    LET hits == {i \in DOMAIN line : line[i] \in Year4Toks}
    IN IF hits = {} THEN None ELSE Some(line[Min(hits)])

Without(line, tok) == SelectSeq(line, LAMBDA t : t # tok)

\* Lines 487-505: the entry of one line.
Cert(line) ==
    [name |-> IF CertYear(line).some THEN Without(line, CertYear(line).val) ELSE line,
     year |-> CertYear(line),
     issuer |-> Issuer(line)]

\* Lines 481-505, one iteration.
CertStep(list, line) ==
    IF line = <<>> \/ TextLen(Doc(line)) < CertMinLen THEN list
    ELSE Append(list, Cert(line))

RECURSIVE CertLoop(_, _)
CertLoop(list, lines) ==
    IF lines = <<>> THEN list ELSE CertLoop(CertStep(list, Head(lines)), Tail(lines))

extract_certifications(lines) ==
    IF CertText(lines) = <<>> THEN <<>>
    ELSE CertLoop(<<>>, Split(Strip(CertText(lines))))

(***************************************************************************)
(* read_file, lines 88-103, and parse, lines 546-581.  A file is its path  *)
(* [stem, ext] with what the disk holds: whether its reader can read it    *)
(* and, if so, the lines of the text the reader returns.                   *)
(***************************************************************************)
Return(v) == [raised |-> FALSE, value |-> v]
Raise(e) == [raised |-> TRUE, value |-> e]

ReadableExts == {"pdf", "docx", "doc", "txt"}
ReadError == "cannot read the file"
NoTextMessage == "No text could be extracted from the file"

\* Line 90.
FileExt(file_path) == Lower(file_path.ext)

read_file(file) ==
    IF FileExt(file.path) \in ReadableExts
    THEN IF file.readable THEN Return(file.text) ELSE Raise(ReadError)
    ELSE Raise(<<"Unsupported file format:", FileExt(file.path)>>)

\* Line 553 gone: no text counts as empty.
NoText_Never(lines) == FALSE

\* Line 553: `not text`.
NoText(lines) == Join(lines) = <<>>

\* Lines 560-571.  The fields text_length and parsed_date, which nothing
\* below reads, are left out.
ParsedData(file_path, lines) ==
    [file |-> file_path,
     contact |-> extract_contact_info(lines),
     skills |-> extract_skills(lines),
     education |-> extract_education(lines),
     experience |-> extract_experience(lines),
     projects |-> extract_projects(lines),
     certifications |-> extract_certifications(lines),
     sections |-> DOMAIN extract_sections(lines)]

\* Line 574.
WithScores(parsed_data) == parsed_data @@ ("scores" :> calculate_score(parsed_data))

\* The handler of lines 579-581 gone: the exception leaves parse.
Handler_Propagate(e, file_path) == Raise(e)

\* Lines 579-581.
Handler(e, file_path) == Return([error |-> e, file |-> file_path])

parse(file) ==
    LET r == read_file(file)
    IN IF r.raised THEN Handler(r.value, file.path)
       ELSE IF NoText(r.value) THEN Return([error |-> NoTextMessage])
       ELSE Return(WithScores(ParsedData(file.path, r.value)))

(***************************************************************************)
(* Specification of parse: one step per stage.  The text of a file is any  *)
(* selection of the parts of ParseParts, in their order.                   *)
(***************************************************************************)
ParseParts ==
    << << <<"Curriculum", "Vitae">> >>,
       << <<"Jane", "Doe">> >>,
       << <<"jane@x.org">> >>,
       << <<"555-123-4567">> >>,
       << <<"Python", ",", "SQL">> >>,
       << <<"EXPERIENCE">>, <<"Senior", "Software", "Engineer", "at", "Acme", "Corp">> >>,
       << <<"EDUCATION">>, <<"Bachelor", "of", "Arts">> >>,
       << <<"PROJECTS">>, <<"Shop", "App">>, <<"Built", "with:", "Kotlin">> >>,
       << <<"CERTIFICATIONS">>, <<"Cisco", "Certified", "Developer", "2020">>, <<"PMI">> >> >>

\* The lines of the parts chosen by S; the empty text is one empty line.
TextOfParts(S) ==
    LET F[k \in 0..Len(ParseParts)] ==
            IF k = 0 THEN <<>>
            ELSE IF k \in S THEN F[k - 1] \o ParseParts[k] ELSE F[k - 1]
    IN IF S = {} THEN << <<>> >> ELSE F[Len(ParseParts)]

ParseTexts == {TextOfParts(S) : S \in SUBSET DOMAIN ParseParts}

ParseExts == {"txt", "pdf", "docx", "doc", "rtf", "TXT"}

ParseFiles ==
    {[path |-> [stem |-> "cv", ext |-> e], readable |-> TRUE, text |-> t] :
        e \in ParseExts, t \in ParseTexts}
    \cup {[path |-> [stem |-> "cv", ext |-> e], readable |-> FALSE, text |-> << <<>> >>] :
        e \in ParseExts}

NoFile == [path |-> [stem |-> "", ext |-> ""], readable |-> FALSE, text |-> << <<>> >>]
NoData == [file |-> NoFile.path]

ParseIdle ==
    /\ parse_file = NoFile
    /\ parse_text = << <<>> >>
    /\ parse_sections = {}
    /\ parse_data = NoData
    /\ parse_exc = None
    /\ parse_out = None
    /\ parse_trace = <<>>
    /\ parse_pc = "idle"

ParseInit ==
    /\ parse_file \in ParseFiles
    /\ parse_text = << <<>> >>
    /\ parse_sections = {}
    /\ parse_data = NoData
    /\ parse_exc = None
    /\ parse_out = None
    /\ parse_trace = <<>>
    /\ parse_pc = "read"

\* Line 552, read_file returns.
ParseRead ==
    /\ parse_pc = "read"
    /\ ~read_file(parse_file).raised
    /\ parse_text' = read_file(parse_file).value
    /\ parse_trace' = Append(parse_trace, "read_file")
    /\ parse_pc' = "check"
    /\ UNCHANGED <<parse_file, parse_sections, parse_data, parse_exc, parse_out, parse_rest>>

\* Line 552, read_file raises: control goes to the handler of line 579.
ParseReadFails ==
    /\ parse_pc = "read"
    /\ read_file(parse_file).raised
    /\ parse_exc' = Some(read_file(parse_file).value)
    /\ parse_trace' = Append(parse_trace, "read_file")
    /\ parse_pc' = "except"
    /\ UNCHANGED <<parse_file, parse_text, parse_sections, parse_data, parse_out, parse_rest>>

\* Lines 553-554.
ParseNoText ==
    /\ parse_pc = "check"
    /\ NoText(parse_text)
    /\ parse_out' = Some(Return([error |-> NoTextMessage]))
    /\ parse_pc' = "done"
    /\ UNCHANGED <<parse_file, parse_text, parse_sections, parse_data, parse_exc, parse_trace,
                   parse_rest>>

\* Lines 557 and 561: the sections, then the first value of the dict.
ParseSections ==
    /\ parse_pc = "check"
    /\ ~NoText(parse_text)
    /\ parse_sections' = DOMAIN extract_sections(parse_text)
    /\ parse_data' = [file |-> parse_file.path]
    /\ parse_trace' = Append(parse_trace, "extract_sections")
    /\ parse_pc' = "extract_contact_info"
    /\ UNCHANGED <<parse_file, parse_text, parse_exc, parse_out, parse_rest>>

\* One value of the dict of lines 560-571: the call of `method` with its
\* result stored under `key`, and the method that is called next.
Extractor(method, key, value, next) ==
    /\ parse_pc = method
    /\ parse_data' = parse_data @@ (key :> value)
    /\ parse_trace' = Append(parse_trace, method)
    /\ parse_pc' = next
    /\ UNCHANGED <<parse_file, parse_text, parse_sections, parse_exc, parse_out, parse_rest>>

\* Line 562.
ParseContact ==
    Extractor("extract_contact_info", "contact", extract_contact_info(parse_text),
              "extract_skills")

\* Line 563.
ParseSkills ==
    Extractor("extract_skills", "skills", extract_skills(parse_text), "extract_education")

\* Line 564.
ParseEducation ==
    Extractor("extract_education", "education", extract_education(parse_text),
              "extract_experience")

\* Line 565.
ParseExperience ==
    Extractor("extract_experience", "experience", extract_experience(parse_text),
              "extract_projects")

\* Line 566.
ParseProjects ==
    Extractor("extract_projects", "projects", extract_projects(parse_text),
              "extract_certifications")

\* Lines 567-568: the last extractor, and the list of the section names.
ParseCertifications ==
    /\ parse_pc = "extract_certifications"
    /\ parse_data' = parse_data @@ ("certifications" :> extract_certifications(parse_text))
                                @@ ("sections" :> parse_sections)
    /\ parse_trace' = Append(parse_trace, "extract_certifications")
    /\ parse_pc' = "score"
    /\ UNCHANGED <<parse_file, parse_text, parse_sections, parse_exc, parse_out, parse_rest>>

\* Lines 574-577.
ParseScore ==
    /\ parse_pc = "score"
    /\ parse_data' = WithScores(parse_data)
    /\ parse_out' = Some(Return(parse_data'))
    /\ parse_trace' = Append(parse_trace, "calculate_score")
    /\ parse_pc' = "done"
    /\ UNCHANGED <<parse_file, parse_text, parse_sections, parse_exc, parse_rest>>

\* Lines 579-581.
ParseExcept ==
    /\ parse_pc = "except"
    /\ parse_out' = Some(Handler(parse_exc.val, parse_file.path))
    /\ parse_pc' = "done"
    /\ UNCHANGED <<parse_file, parse_text, parse_sections, parse_data, parse_exc, parse_trace,
                   parse_rest>>

ParseNext ==
    \/ ParseRead \/ ParseReadFails \/ ParseNoText \/ ParseSections
    \/ ParseContact \/ ParseSkills \/ ParseEducation \/ ParseExperience
    \/ ParseProjects \/ ParseCertifications \/ ParseScore \/ ParseExcept

(***************************************************************************)
(* utils.py: save_parsed_resume, lines 7-21, and export_to_csv, lines      *)
(* 23-58.                                                                  *)
(***************************************************************************)
\* dict.get(k, default).
GetOr(d, k, default) == IF k \in DOMAIN d THEN d[k] ELSE default

\* str.replace(' ', '_') of a rendered token sequence: "_" takes the place
\* of the blank before each token that has one.
RECURSIVE Underscored(_, _)
Underscored(toks, i) ==
    IF i > Len(toks) THEN <<>>
    ELSE (IF Lead(toks, i) = 1 THEN <<"_", toks[i]>> ELSE <<toks[i]>>) \o Underscored(toks, i + 1)

NoReplace == "'NoneType' object has no attribute 'replace'"

\* Lines 12-21 at clock second `now`: the path written to, or the
\* AttributeError of line 14 when the name is None.
save_parsed_resume(parsed_data, now) ==
    LET name == GetOr(GetOr(parsed_data, "contact", EmptyDict), "name", Some(<<"unknown">>))
    IN IF name.some
       THEN Return([name |-> Underscored(name.val, 1), timestamp |-> now])
       ELSE Raise(NoReplace)

\* Line 28.
HasError_Never(result) == FALSE
HasError(result) == "error" \in DOMAIN result

ExpColumns == 3
EduColumns == 2

\* ', '.join(skills), line 36.
RECURSIVE JoinComma(_)
JoinComma(skills) ==
    IF skills = <<>> THEN <<>>
    ELSE IF Len(skills) = 1 THEN <<Head(skills)>>
    ELSE <<Head(skills), ",">> \o JoinComma(Tail(skills))

EmptyStr == Some(<<>>)

\* Lines 31-50: the row of one result.
RowOf(result) ==
    LET contact == GetOr(result, "contact", EmptyDict)
        exps == GetOr(result, "experience", <<>>)
        edus == GetOr(result, "education", <<>>)
    IN [Name |-> GetOr(contact, "name", EmptyStr),
        Email |-> GetOr(contact, "email", EmptyStr),
        Phone |-> GetOr(contact, "phone", EmptyStr),
        LinkedIn |-> GetOr(contact, "linkedin", EmptyStr),
        Skills |-> JoinComma(GetOr(result, "skills", <<>>)),
        Experience_Count |-> Len(exps),
        Education_Count |-> Len(edus),
        Overall_Score |-> GetOr(GetOr(result, "scores", EmptyDict), "overall", 0),
        Experience |-> [i \in 1..Min({ExpColumns, Len(exps)}) |->
                           [Position |-> exps[i].position, Company |-> exps[i].company]],
        Education |-> [i \in 1..Min({EduColumns, Len(edus)}) |->
                          [Degree |-> Some(edus[i].degree), Institution |-> edus[i].institution]]]

\* Lines 25-52.
RECURSIVE Rows(_)
Rows(parsed_results) ==
    IF parsed_results = <<>> THEN <<>>
    ELSE IF HasError(Head(parsed_results)) THEN Rows(Tail(parsed_results))
    ELSE <<RowOf(Head(parsed_results))>> \o Rows(Tail(parsed_results))

\* to_csv writes None as an empty cell.
CsvCell(v) == IF v.some THEN v.val ELSE <<>>

CsvLine(row) ==
    [Name |-> CsvCell(row.Name), Email |-> CsvCell(row.Email), Phone |-> CsvCell(row.Phone),
     LinkedIn |-> CsvCell(row.LinkedIn), Skills |-> row.Skills,
     Experience_Count |-> row.Experience_Count, Education_Count |-> row.Education_Count,
     Overall_Score |-> row.Overall_Score,
     Experience |-> [i \in DOMAIN row.Experience |->
                        [Position |-> CsvCell(row.Experience[i].Position),
                         Company |-> CsvCell(row.Experience[i].Company)]],
     Education |-> [i \in DOMAIN row.Education |->
                       [Degree |-> CsvCell(row.Education[i].Degree),
                        Institution |-> CsvCell(row.Education[i].Institution)]]]

\* Lines 55-56: the lines of the CSV file below its header.
export_to_csv(parsed_results) ==
    LET rows == Rows(parsed_results)
    IN [k \in DOMAIN rows |-> CsvLine(rows[k])]

(***************************************************************************)
(* main.py: parse_single_resume, lines 16-34, with use_advanced False, and *)
(* parse_multiple_resumes, lines 36-63.                                    *)
(***************************************************************************)
\* What the call does at clock second `now`: it raises, or it returns the
\* parsed data after writing it to `saved`.
\* Lines 27-34, given what parser.parse has handed back.
SaveAndReturn(p, now) ==
    IF p.raised THEN [raised |-> TRUE, value |-> p.value, saved |-> None]
    ELSE LET s == save_parsed_resume(p.value, now)
         IN IF s.raised THEN [raised |-> TRUE, value |-> s.value, saved |-> None]
            ELSE [raised |-> FALSE, value |-> p.value, saved |-> Some(s.value)]

parse_single_resume(file, now) == SaveAndReturn(parse(file), now)

\* Line 43: str.endswith does not fold case.
ListedExts == {"pdf", "docx", "txt"}

Listed(file) == file.path.ext \in ListedExts

\* Lines 41-44.
RECURSIVE ResumeFiles(_)
ResumeFiles(dir) ==
    IF dir = <<>> THEN <<>>
    ELSE IF Listed(Head(dir)) THEN <<Head(dir)>> \o ResumeFiles(Tail(dir))
    ELSE ResumeFiles(Tail(dir))

(***************************************************************************)
(* Specification of parse_multiple_resumes: one step per file.  A          *)
(* directory is a list of up to MaxFiles files in the order of os.listdir; *)
(* the clock second may advance up to MaxClock between two files.          *)
(***************************************************************************)
MaxFiles == 3
MaxClock == 1

NamedText == TextOfParts({2, 6})
OtherNamedText == TextOfParts({2, 5, 7})
UnnamedText == TextOfParts({3})
EmptyText == TextOfParts({})

FileKinds ==
    { [ext |-> "txt", readable |-> TRUE, text |-> NamedText],
      [ext |-> "pdf", readable |-> TRUE, text |-> OtherNamedText],
      [ext |-> "txt", readable |-> TRUE, text |-> UnnamedText],
      [ext |-> "txt", readable |-> TRUE, text |-> EmptyText],
      [ext |-> "txt", readable |-> FALSE, text |-> EmptyText],
      [ext |-> "doc", readable |-> TRUE, text |-> NamedText],
      [ext |-> "rtf", readable |-> TRUE, text |-> NamedText] }

\* The i-th file of a directory.
FileAt(i, kind) ==
    [path |-> [stem |-> i, ext |-> kind.ext], readable |-> kind.readable, text |-> kind.text]

Directories ==
    UNION {{[i \in 1..n |-> FileAt(i, kinds[i])] : kinds \in [1..n -> FileKinds]} : n \in 0..MaxFiles}

BatchIdle ==
    /\ batch_dir = <<>>
    /\ resume_files = <<>>
    /\ batch_k = 1
    /\ results = <<>>
    /\ out_dir = EmptyDict
    /\ batch_now = 0
    /\ csv = None
    /\ batch_pc = "idle"

BatchInit ==
    /\ batch_dir \in Directories
    /\ resume_files = <<>>
    /\ batch_k = 1
    /\ results = <<>>
    /\ out_dir = EmptyDict
    /\ batch_now = 0
    /\ csv = None
    /\ batch_pc = "list"

\* Lines 41-46.
BatchList ==
    /\ batch_pc = "list"
    /\ resume_files' = ResumeFiles(batch_dir)
    /\ batch_pc' = "parse"
    /\ UNCHANGED <<batch_dir, batch_k, results, out_dir, batch_now, csv, batch_rest>>

\* The clock second passes.
BatchTick ==
    /\ batch_pc = "parse"
    /\ batch_now < MaxClock
    /\ batch_now' = batch_now + 1
    /\ UNCHANGED <<batch_dir, resume_files, batch_k, results, out_dir, csv, batch_pc, batch_rest>>

\* Lines 52-53 after a call that returned r, which wrote its result file.
Returned(r) ==
    /\ ~r.raised
    /\ results' = Append(results, r.value)
    /\ out_dir' = DictPut(out_dir, r.saved.val, r.value)

\* Lines 54-56 after a call that raised.
Raised(r, file_path) ==
    /\ r.raised
    /\ results' = Append(results, [error |-> r.value, file |-> file_path])

\* Lines 51-53: parse_single_resume returns.
BatchParsed ==
    /\ batch_pc = "parse"
    /\ batch_k <= Len(resume_files)
    /\ Returned(parse_single_resume(resume_files[batch_k], batch_now))
    /\ batch_k' = batch_k + 1
    /\ UNCHANGED <<batch_dir, resume_files, batch_now, csv, batch_pc, batch_rest>>

\* Lines 54-56: parse_single_resume raises.
BatchFailed ==
    /\ batch_pc = "parse"
    /\ batch_k <= Len(resume_files)
    /\ Raised(parse_single_resume(resume_files[batch_k], batch_now), resume_files[batch_k].path)
    /\ batch_k' = batch_k + 1
    /\ UNCHANGED <<batch_dir, resume_files, out_dir, batch_now, csv, batch_pc, batch_rest>>

\* Lines 59-63 with results.
BatchExport ==
    /\ batch_pc = "parse"
    /\ batch_k > Len(resume_files)
    /\ results # <<>>
    /\ csv' = Some(export_to_csv(results))
    /\ batch_pc' = "done"
    /\ UNCHANGED <<batch_dir, resume_files, batch_k, results, out_dir, batch_now, batch_rest>>

\* Lines 59-63 without results: nothing is exported.
BatchReturnEmpty ==
    /\ batch_pc = "parse"
    /\ batch_k > Len(resume_files)
    /\ results = <<>>
    /\ batch_pc' = "done"
    /\ UNCHANGED <<batch_dir, resume_files, batch_k, results, out_dir, batch_now, csv, batch_rest>>

BatchNext ==
    \/ BatchList \/ BatchTick \/ BatchParsed \/ BatchFailed \/ BatchExport \/ BatchReturnEmpty

(***************************************************************************)
(* Calls of the extraction methods on one parser and one text.  None of    *)
(* extract_skills (lines 248-260) and extract_contact_info (lines 174-183) *)
(* assigns an attribute of the parser.                                     *)
(***************************************************************************)
MaxSkillToks == 3
MaxCalls == 3

SkillToks == {"Python", "SQL", "Kotlin", "R", ",", NL}
SkillTexts ==
    {Split(toks) : toks \in UNION {[1..n -> SkillToks] : n \in 0..MaxSkillToks}}

SkillsIdle ==
    /\ skl_text = << <<>> >>
    /\ skl_calls = <<>>

SkillsInit ==
    /\ skl_text \in SkillTexts
    /\ skl_calls = <<>>

\* parser.extract_skills(text)
SkillsCall ==
    /\ Len(skl_calls) < MaxCalls
    /\ skl_calls' = Append(skl_calls, [method |-> "extract_skills",
                                       result |-> extract_skills(skl_text)])
    /\ UNCHANGED <<skl_text, skills_rest>>

\* parser.extract_contact_info(text)
ContactCall ==
    /\ Len(skl_calls) < MaxCalls
    /\ skl_calls' = Append(skl_calls, [method |-> "extract_contact_info",
                                       result |-> extract_contact_info(skl_text)])
    /\ UNCHANGED <<skl_text, skills_rest>>

SkillsNext == SkillsCall \/ ContactCall

(***************************************************************************)
(* extract_name_nlp, advanced_parser.py lines 46-66.  What the entity      *)
(* recognizer reports (doc.ents, line 53) is outside the repository: any   *)
(* list of spans of the first lines may come back as PERSON entities.      *)
(***************************************************************************)
NlpLines == 10
NlpMinWords == 2
NlpMaxWords == 4

\* Tokens whose lower case holds one of the words of line 63.
FalsePositiveToks == {"University", "College", "Company"}

\* Lines 58-63: the tests a reported person has to pass.
ValidPerson(person) ==
    /\ NlpMinWords <= WordCount(person) /\ WordCount(person) <= NlpMaxWords
    /\ \A i \in DOMAIN person : person[i] \notin LowerStartToks \cup DigitToks
    /\ \A i \in DOMAIN person : person[i] \notin FalsePositiveToks

\* Lines 56-66: the first reported person that passes, else the result of
\* the basic extract_name.
extract_name_nlp(lines, persons) ==
    LET valid == {k \in DOMAIN persons : ValidPerson(persons[k])}
    IN IF valid # {} THEN Some(persons[Min(valid)]) ELSE extract_name(lines)

\* The spans of the first lines: runs of consecutive tokens of one line.
Spans(lines) ==
    UNION {{SubSeq(lines[i], a, b) : <<a, b>> \in
                {ab \in (DOMAIN lines[i]) \X (DOMAIN lines[i]) : ab[1] <= ab[2]}} :
           i \in 1..Min({NlpLines, Len(lines)})}

MaxNlpLines == 2
MaxPersons == 1

InstitutionLine == <<"Jane", "Smith", "University", "Program">>
NlpLineSet == {InstitutionLine, <<"Jane", "Doe">>, <<"Curriculum", "Vitae">>}
NlpTexts == UNION {[1..n -> NlpLineSet] : n \in 1..MaxNlpLines}

NlpIdle ==
    /\ nlp_text = << <<>> >>
    /\ nlp_persons = <<>>
    /\ nlp_name = None
    /\ nlp_pc = "idle"

NlpInit ==
    /\ nlp_text \in NlpTexts
    /\ nlp_persons = <<>>
    /\ nlp_name = None
    /\ nlp_pc = "recognize"

\* Lines 49-53: the recognizer reports its PERSON entities.
NlpRecognize ==
    /\ nlp_pc = "recognize"
    /\ \E n \in 0..MaxPersons : \E ps \in [1..n -> Spans(nlp_text)] : nlp_persons' = ps
    /\ nlp_pc' = "filter"
    /\ UNCHANGED <<nlp_text, nlp_name, nlp_rest>>

\* Lines 56-64: a reported person passes the tests and is returned.
NlpAccept ==
    /\ nlp_pc = "filter"
    /\ \E k \in DOMAIN nlp_persons : ValidPerson(nlp_persons[k])
    /\ nlp_name' = extract_name_nlp(nlp_text, nlp_persons)
    /\ nlp_pc' = "done"
    /\ UNCHANGED <<nlp_text, nlp_persons, nlp_rest>>

\* Line 66: no reported person passes; the basic extractor decides.
NlpFallback ==
    /\ nlp_pc = "filter"
    /\ \A k \in DOMAIN nlp_persons : ~ValidPerson(nlp_persons[k])
    /\ nlp_name' = extract_name_nlp(nlp_text, nlp_persons)
    /\ nlp_pc' = "done"
    /\ UNCHANGED <<nlp_text, nlp_persons, nlp_rest>>

NlpNext == NlpRecognize \/ NlpAccept \/ NlpFallback

(***************************************************************************)
(* analyze_experience_level, advanced_parser.py lines 144-181.  The        *)
(* function uses the names re (line 157) and datetime (lines 161-165),     *)
(* which advanced_parser.py does not import (lines 1-5): a use of an       *)
(* unbound name raises NameError.  The specification runs the function in  *)
(* the module with Optional bound (without it the class body raises and    *)
(* there is no function to call), with and without re and datetime.        *)
(***************************************************************************)
\* Lines 1-5: the names the module binds, and the names lines 46, 157 and
\* 161-165 use without an import.
ModuleNames == {"spacy", "Matcher", "nltk", "Dict", "List", "ResumeParser"}
MissingNames == {"re", "datetime"}

MonthsPerYear == 12
EntryYears == 2
MidYears == 5
SeniorYears == 10

\* Line 157: re.findall(r'(\w+\s+\d{4})', duration), the (word, year) pairs
\* of the duration, left to right.
RECURSIVE DatesFrom(_, _)
DatesFrom(duration, i) ==
    IF i >= Len(duration) THEN <<>>
    ELSE IF duration[i] \notin NoWordStart \cup DashToks /\ duration[i + 1] \in Year4Toks
         THEN << <<duration[i], duration[i + 1]>> >> \o DatesFrom(duration, i + 2)
         ELSE DatesFrom(duration, i + 1)

\* strptime(date, '%B %Y'): %B is the full month name; 0 stands for the
\* ValueError of any other word.
MonthOf(word) ==
    CASE word = "January" -> 1
      [] word = "March" -> 3
      [] OTHER -> 0

\* Line 162: 'present' in duration.lower().
PresentToks == {"Present"}
HasPresent(duration) == \E i \in DOMAIN duration : duration[i] \in PresentToks

\* Lines 160-170: the try block raises (and the bare except passes).
TryRaises(names, duration) ==
    LET dates == DatesFrom(duration, 1)
    IN \/ "datetime" \notin names
       \/ MonthOf(dates[1][1]) = 0
       \/ ~HasPresent(duration) /\ MonthOf(dates[2][1]) = 0

\* Lines 161-167: months, when the try block does not raise.
Months(duration, now) ==
    LET dates == DatesFrom(duration, 1)
        start_date == [year |-> YearInt(dates[1][2]), month |-> MonthOf(dates[1][1])]
        end_date == IF HasPresent(duration) THEN now
                    ELSE [year |-> YearInt(dates[2][2]), month |-> MonthOf(dates[2][1])]
    IN (end_date.year - start_date.year) * MonthsPerYear + (end_date.month - start_date.month)

\* Lines 172-181: years = total_months / 12 against the three limits.
Level(total) ==
    IF total < EntryYears * MonthsPerYear THEN "Entry Level"
    ELSE IF total < MidYears * MonthsPerYear THEN "Mid Level"
    ELSE IF total < SeniorYears * MonthsPerYear THEN "Senior Level"
    ELSE "Expert/Executive Level"

\* Lines 154-170, one iteration: [raised, value] with the new total_months
\* or the exception.
LevelStep(names, total, exp, now) ==
    IF "re" \notin names THEN Raise("NameError")
    ELSE IF ~exp.duration.some THEN Raise("TypeError")
    ELSE IF Len(DatesFrom(exp.duration.val, 1)) < 2 THEN Return(total)
    ELSE IF TryRaises(names, exp.duration.val) THEN Return(total)
    ELSE Return(total + Months(exp.duration.val, now))

RECURSIVE LevelLoop(_, _, _, _)
LevelLoop(names, total, exps, now) ==
    IF exps = <<>> THEN Return(Level(total))
    ELSE LET r == LevelStep(names, total, Head(exps), now)
         IN IF r.raised THEN r ELSE LevelLoop(names, r.value, Tail(exps), now)

\* Lines 144-181.
analyze_experience_level(names, exps, now) ==
    IF exps = <<>> THEN Return("Entry Level") ELSE LevelLoop(names, 0, exps, now)

(***************************************************************************)
(* Specification of analyze_experience_level: one step per entry.  The     *)
(* durations are of the form extract_experience returns (lines 393-396).   *)
(***************************************************************************)
MaxLevelEntries == 2

DurationSet ==
    { None,
      Some(<<"January", "2019", "-", "March", "2020">>),
      Some(<<"January", "2015", "-", "March", "2019">>),
      Some(<<"January", "1998", "-", "March", "2015">>),
      Some(<<"Jan", "2015", "-", "Mar", "2020">>),
      Some(<<"January", "2015", "-", "Present">>) }

LevelInputs == UNION {[1..n -> [duration : DurationSet]] : n \in 0..MaxLevelEntries}
Clock == {[year |-> CurrentYear, month |-> m] : m \in {1, 11}}

LevelIdle ==
    /\ lvl_names = {}
    /\ lvl_experience = <<>>
    /\ lvl_now = [year |-> CurrentYear, month |-> 1]
    /\ lvl_i = 1
    /\ total_months = 0
    /\ lvl_out = None
    /\ lvl_pc = "idle"

LevelInit ==
    /\ lvl_names \in {ModuleNames \cup {"Optional"} \cup add : add \in SUBSET MissingNames}
    /\ lvl_experience \in LevelInputs
    /\ lvl_now \in Clock
    /\ lvl_i = 1
    /\ total_months = 0
    /\ lvl_out = None
    /\ lvl_pc = "start"

\* Lines 148-149.
LevelNoExperience ==
    /\ lvl_pc = "start"
    /\ lvl_experience = <<>>
    /\ lvl_out' = Some(Return("Entry Level"))
    /\ lvl_pc' = "done"
    /\ UNCHANGED <<lvl_names, lvl_experience, lvl_now, lvl_i, total_months, level_rest>>

\* Line 152.
LevelStart ==
    /\ lvl_pc = "start"
    /\ lvl_experience # <<>>
    /\ lvl_pc' = "loop"
    /\ UNCHANGED <<lvl_names, lvl_experience, lvl_now, lvl_i, total_months, lvl_out, level_rest>>

\* Lines 155-157 raise, outside the try block: the call ends with the
\* exception.
LevelRaise ==
    /\ lvl_pc = "loop"
    /\ lvl_i <= Len(lvl_experience)
    /\ LevelStep(lvl_names, total_months, lvl_experience[lvl_i], lvl_now).raised
    /\ lvl_out' = Some(LevelStep(lvl_names, total_months, lvl_experience[lvl_i], lvl_now))
    /\ lvl_pc' = "done"
    /\ UNCHANGED <<lvl_names, lvl_experience, lvl_now, lvl_i, total_months, level_rest>>

\* Lines 155-170: one entry.
LevelEntry ==
    /\ lvl_pc = "loop"
    /\ lvl_i <= Len(lvl_experience)
    /\ ~LevelStep(lvl_names, total_months, lvl_experience[lvl_i], lvl_now).raised
    /\ total_months' = LevelStep(lvl_names, total_months, lvl_experience[lvl_i], lvl_now).value
    /\ lvl_i' = lvl_i + 1
    /\ UNCHANGED <<lvl_names, lvl_experience, lvl_now, lvl_out, lvl_pc, level_rest>>

\* Lines 172-181.
LevelReturn ==
    /\ lvl_pc = "loop"
    /\ lvl_i > Len(lvl_experience)
    /\ lvl_out' = Some(Return(Level(total_months)))
    /\ lvl_pc' = "done"
    /\ UNCHANGED <<lvl_names, lvl_experience, lvl_now, lvl_i, total_months, level_rest>>

LevelNext == LevelNoExperience \/ LevelStart \/ LevelRaise \/ LevelEntry \/ LevelReturn

(***************************************************************************)
(* A run of `python main.py PATH` (main.py lines 1-90, without --advanced, *)
(* so that use_advanced is False in every call).  Loading main.py runs its *)
(* imports (lines 1-7), among them advanced_parser, whose own imports      *)
(* (advanced_parser.py lines 1-5) need the packages spacy and nltk and     *)
(* whose class body needs the name Optional (line 46).  An exception that  *)
(* nothing catches ends the process with exit code 1.  The packages of the *)
(* basic pipeline (pdfplumber, docx, pandas) are installed.                *)
(***************************************************************************)
ExitFailure == 1
ExitSuccess == 0

\* advanced_parser.py lines 1-5 and 46: loading the module raises.
ImportRaises(env, names) ==
    \/ ~env.spacy
    \/ ~env.nltk
    \/ "Optional" \notin names

\* What the path names.
CliPaths ==
    {[kind |-> "missing", file |-> NoFile, dir |-> <<>>],
     [kind |-> "other", file |-> NoFile, dir |-> <<>>]}
    \cup {[kind |-> "file", file |-> FileAt(1, k), dir |-> <<>>] : k \in FileKinds}
    \cup {[kind |-> "dir", file |-> NoFile, dir |-> d] : d \in Directories}

CliIdle ==
    /\ cli_env = [spacy |-> TRUE, nltk |-> TRUE, model |-> TRUE]
    /\ cli_names = {}
    /\ cli_path = [kind |-> "missing", file |-> NoFile, dir |-> <<>>]
    /\ cli_out = None
    /\ cli_exit = <<>>
    /\ cli_pc = "idle"

CliInit ==
    /\ cli_env \in [spacy : BOOLEAN, nltk : BOOLEAN, model : BOOLEAN]
    /\ cli_names \in {ModuleNames, ModuleNames \cup {"Optional"}}
    /\ cli_path \in CliPaths
    /\ cli_out = None
    /\ cli_exit = <<>>
    /\ cli_pc = "import"

\* main.py line 4: the import raises, the process ends with the traceback.
CliImportFails ==
    /\ cli_pc = "import"
    /\ ImportRaises(cli_env, cli_names)
    /\ cli_exit' = <<ExitFailure>>
    /\ cli_pc' = "exited"
    /\ UNCHANGED <<cli_env, cli_names, cli_path, cli_out, cli_rest>>

\* main.py lines 1-7, 89-90: the modules load and main() is called.
CliImport ==
    /\ cli_pc = "import"
    /\ ~ImportRaises(cli_env, cli_names)
    /\ cli_pc' = "main"
    /\ UNCHANGED <<cli_env, cli_names, cli_path, cli_out, cli_exit, cli_rest>>

\* Lines 74-76.
CliMissing ==
    /\ cli_pc = "main"
    /\ cli_path.kind = "missing"
    /\ cli_exit' = <<ExitFailure>>
    /\ cli_pc' = "exited"
    /\ UNCHANGED <<cli_env, cli_names, cli_path, cli_out, cli_rest>>

\* What line 81 hands back: the process ends with the exception, or main
\* returns.
SingleEnds(r) ==
    /\ cli_out' = IF r.raised THEN None ELSE Some(r.value)
    /\ cli_exit' = IF r.raised THEN <<ExitFailure>> ELSE <<ExitSuccess>>

\* Lines 79-81: a single file.
CliSingle ==
    /\ cli_pc = "main"
    /\ cli_path.kind = "file"
    /\ \E now \in 0..MaxClock : SingleEnds(parse_single_resume(cli_path.file, now))
    /\ cli_pc' = "exited"
    /\ UNCHANGED <<cli_env, cli_names, cli_path, cli_rest>>

\* Lines 82-84: a directory; parse_multiple_resumes starts.
CliDirectory ==
    /\ cli_pc = "main"
    /\ cli_path.kind = "dir"
    /\ batch_pc = "idle"
    /\ batch_dir' = cli_path.dir
    /\ batch_pc' = "list"
    /\ cli_pc' = "batch"
    /\ UNCHANGED <<cli_env, cli_names, cli_path, cli_out, cli_exit>>
    /\ UNCHANGED <<resume_files, batch_k, results, out_dir, batch_now, csv, rest_cli_batch>>

\* Line 84 returns, main returns.
CliBatchDone ==
    /\ cli_pc = "batch"
    /\ batch_pc = "done"
    /\ cli_exit' = <<ExitSuccess>>
    /\ cli_pc' = "exited"
    /\ UNCHANGED <<cli_env, cli_names, cli_path, cli_out, cli_rest>>

\* Lines 85-87: the path exists and is neither a file nor a directory.
CliInvalid ==
    /\ cli_pc = "main"
    /\ cli_path.kind = "other"
    /\ cli_exit' = <<ExitFailure>>
    /\ cli_pc' = "exited"
    /\ UNCHANGED <<cli_env, cli_names, cli_path, cli_out, cli_rest>>

CliNext ==
    \/ CliImportFails \/ CliImport \/ CliMissing \/ CliSingle \/ CliDirectory
    \/ CliBatchDone \/ CliInvalid
    \/ BatchList \/ BatchTick \/ BatchParsed \/ BatchFailed \/ BatchExport \/ BatchReturnEmpty

\* ---------------------------------------------------------------------- *
\* Concurrent parses on one parser: each call of parse has its own locals
\* (file_path, text, sections, parsed_data, the caught exception and the
\* returned value, lines 546-581), and all calls read the tables of
\* lines 15-41 through self.
\* ---------------------------------------------------------------------- *
NumWorkers == 2
Workers == 1..NumWorkers

\* The documents of the pool: two resumes whose extracted fields differ, an
\* empty file, and a file whose extension read_file refuses.
PoolFiles ==
    {[path |-> [stem |-> "a", ext |-> "txt"], readable |-> TRUE,
      text |-> TextOfParts({2, 3, 5, 6})],
     [path |-> [stem |-> "b", ext |-> "txt"], readable |-> TRUE,
      text |-> TextOfParts({1, 4, 7, 8, 9})],
     [path |-> [stem |-> "c", ext |-> "rtf"], readable |-> TRUE,
      text |-> TextOfParts({2})],
     [path |-> [stem |-> "d", ext |-> "txt"], readable |-> TRUE,
      text |-> TextOfParts({})]}

\* The locals of a call of parse that has not started.
Frame(file) ==
    [file |-> file, pc |-> "read", text |-> <<>>, sections |-> {}, data |-> NoData,
     exc |-> None, out |-> None]

\* One buffer for the text of all calls: the text is read from the first
\* frame, whichever call asks.
TextOf_Shared(fs, w) == fs[1].text

\* Line 552: text is a local variable of the call.
TextOf(fs, w) == fs[w].text

\* Lines 562-567: the six extractors, in the order of the dict literal.
Extractors ==
    <<"extract_contact_info", "extract_skills", "extract_education", "extract_experience",
      "extract_projects", "extract_certifications">>

Extracted(method, lines) ==
    CASE method = "extract_contact_info" -> "contact" :> extract_contact_info(lines)
      [] method = "extract_skills" -> "skills" :> extract_skills(lines)
      [] method = "extract_education" -> "education" :> extract_education(lines)
      [] method = "extract_experience" -> "experience" :> extract_experience(lines)
      [] method = "extract_projects" -> "projects" :> extract_projects(lines)
      [] method = "extract_certifications" -> "certifications" :> extract_certifications(lines)

PoolIdle == frames = <<>>

PoolInit == frames \in [Workers -> {Frame(f) : f \in PoolFiles}]

\* Line 552, read_file returns.
PoolRead(w) ==
    /\ frames[w].pc = "read"
    /\ ~read_file(frames[w].file).raised
    /\ frames' = [frames EXCEPT ![w].text = read_file(frames[w].file).value,
                                ![w].pc = "check"]
    /\ UNCHANGED pool_rest

\* Line 552, read_file raises; lines 579-581 return the error result.
PoolReadFails(w) ==
    /\ frames[w].pc = "read"
    /\ read_file(frames[w].file).raised
    /\ frames' = [frames EXCEPT
                    ![w].exc = Some(read_file(frames[w].file).value),
                    ![w].out = Some(Handler(read_file(frames[w].file).value,
                                            frames[w].file.path)),
                    ![w].pc = "done"]
    /\ UNCHANGED pool_rest

\* Lines 553-554.
PoolNoText(w) ==
    /\ frames[w].pc = "check"
    /\ NoText(TextOf(frames, w))
    /\ frames' = [frames EXCEPT ![w].out = Some(Return([error |-> NoTextMessage])),
                                ![w].pc = "done"]
    /\ UNCHANGED pool_rest

\* Lines 557 and 561.
PoolSections(w) ==
    /\ frames[w].pc = "check"
    /\ ~NoText(TextOf(frames, w))
    /\ frames' = [frames EXCEPT ![w].sections = DOMAIN extract_sections(TextOf(frames, w)),
                                ![w].data = [file |-> frames[w].file.path],
                                ![w].pc = Extractors[1]]
    /\ UNCHANGED pool_rest

\* Lines 562-568: the k-th extractor; after the last, the section names.
PoolExtract(w) ==
    \E k \in DOMAIN Extractors :
        /\ frames[w].pc = Extractors[k]
        /\ frames' = [frames EXCEPT
                        ![w].data =
                            IF k < Len(Extractors)
                            THEN @ @@ Extracted(Extractors[k], TextOf(frames, w))
                            ELSE @ @@ Extracted(Extractors[k], TextOf(frames, w))
                                   @@ ("sections" :> frames[w].sections),
                        ![w].pc = IF k < Len(Extractors) THEN Extractors[k + 1] ELSE "score"]
        /\ UNCHANGED pool_rest

\* Lines 574-577.
PoolScore(w) ==
    /\ frames[w].pc = "score"
    /\ frames' = [frames EXCEPT ![w].data = WithScores(@),
                                ![w].out = Some(Return(WithScores(frames[w].data))),
                                ![w].pc = "done"]
    /\ UNCHANGED pool_rest

PoolNext ==
    \E w \in Workers :
        \/ PoolRead(w) \/ PoolReadFails(w) \/ PoolNoText(w)
        \/ PoolSections(w) \/ PoolExtract(w) \/ PoolScore(w)

\* ---------------------------------------------------------------------- *\
\* Specifications
\* ---------------------------------------------------------------------- *\
vars == <<table_vars, seg_vars, edu_vars, exp_vars, score_vars, parse_vars, batch_vars, skills_vars, nlp_vars, proj_vars, level_vars, cli_vars, pool_vars>>

\* __init__, lines 14-41: the tables of a new parser.
ParserInit ==
    /\ patterns = [email |-> EmailToks, phone |-> PhoneToks]
    /\ skills_db = load_skills_database
    /\ section_headers = SectionHeaders

SegNext == SegStep \/ SegFinish

InitSeg == ParserInit /\ SegInit /\ EduIdle /\ ExpIdle /\ ScoreIdle /\ ParseIdle /\ BatchIdle /\ SkillsIdle /\ NlpIdle /\ ProjIdle /\ LevelIdle /\ CliIdle /\ PoolIdle

SpecSeg == InitSeg /\ [][SegNext]_vars

InitEdu == ParserInit /\ EduInit /\ SegIdle /\ ExpIdle /\ ScoreIdle /\ ParseIdle /\ BatchIdle /\ SkillsIdle /\ NlpIdle /\ ProjIdle /\ LevelIdle /\ CliIdle /\ PoolIdle

SpecEdu == InitEdu /\ [][EduNext]_vars

InitExp == ParserInit /\ ExpInit /\ SegIdle /\ EduIdle /\ ScoreIdle /\ ParseIdle /\ BatchIdle /\ SkillsIdle /\ NlpIdle /\ ProjIdle /\ LevelIdle /\ CliIdle /\ PoolIdle

SpecExp == InitExp /\ [][ExpNext]_vars

InitScore == ParserInit /\ ScoreInit /\ SegIdle /\ EduIdle /\ ExpIdle /\ ParseIdle /\ BatchIdle /\ SkillsIdle /\ NlpIdle /\ ProjIdle /\ LevelIdle /\ CliIdle /\ PoolIdle

SpecScore == InitScore /\ [][ScoreNext]_vars

InitParse == ParserInit /\ ParseInit /\ SegIdle /\ EduIdle /\ ExpIdle /\ ScoreIdle /\ BatchIdle /\ SkillsIdle /\ NlpIdle /\ ProjIdle /\ LevelIdle /\ CliIdle /\ PoolIdle

SpecParse == InitParse /\ [][ParseNext]_vars

InitBatch == ParserInit /\ BatchInit /\ SegIdle /\ EduIdle /\ ExpIdle /\ ScoreIdle /\ ParseIdle /\ SkillsIdle /\ NlpIdle /\ ProjIdle /\ LevelIdle /\ CliIdle /\ PoolIdle

SpecBatch == InitBatch /\ [][BatchNext]_vars

InitSkills == ParserInit /\ SkillsInit /\ SegIdle /\ EduIdle /\ ExpIdle /\ ScoreIdle /\ ParseIdle /\ BatchIdle /\ NlpIdle /\ ProjIdle /\ LevelIdle /\ CliIdle /\ PoolIdle

SpecSkills == InitSkills /\ [][SkillsNext]_vars

InitNlp == ParserInit /\ NlpInit /\ SegIdle /\ EduIdle /\ ExpIdle /\ ScoreIdle /\ ParseIdle /\ BatchIdle /\ SkillsIdle /\ ProjIdle /\ LevelIdle /\ CliIdle /\ PoolIdle

SpecNlp == InitNlp /\ [][NlpNext]_vars

InitProj == ParserInit /\ ProjInit /\ SegIdle /\ EduIdle /\ ExpIdle /\ ScoreIdle /\ ParseIdle /\ BatchIdle /\ SkillsIdle /\ NlpIdle /\ LevelIdle /\ CliIdle /\ PoolIdle

SpecProj == InitProj /\ [][ProjNext]_vars

InitLevel == ParserInit /\ LevelInit /\ SegIdle /\ EduIdle /\ ExpIdle /\ ScoreIdle /\ ParseIdle /\ BatchIdle /\ SkillsIdle /\ NlpIdle /\ ProjIdle /\ CliIdle /\ PoolIdle

SpecLevel == InitLevel /\ [][LevelNext]_vars

InitCli == ParserInit /\ CliInit /\ SegIdle /\ EduIdle /\ ExpIdle /\ ScoreIdle /\ ParseIdle /\ BatchIdle /\ SkillsIdle /\ NlpIdle /\ ProjIdle /\ LevelIdle /\ PoolIdle

SpecCli == InitCli /\ [][CliNext]_vars

InitPool == ParserInit /\ PoolInit /\ SegIdle /\ EduIdle /\ ExpIdle /\ ScoreIdle /\ ParseIdle /\ BatchIdle /\ SkillsIdle /\ NlpIdle /\ ProjIdle /\ LevelIdle /\ CliIdle

SpecPool == InitPool /\ [][PoolNext]_vars

\* ---------------------------------------------------------------------- *\
\* Claims
\* ---------------------------------------------------------------------- *\

\* Occurrences of line v among the lines of all blocks of the section map.
RECURSIVE BlockCount(_, _, _)
BlockCount(d, keys, v) ==
    IF keys = {} THEN 0
    ELSE LET k == CHOOSE x \in keys : TRUE
         IN Count(Split(d[k]), v) + BlockCount(d, keys \ {k}, v)

\* Occurrences of line v among the non-header lines of the input.
InputCount(lines, v) ==
    Cardinality({i \in DOMAIN lines : lines[i] = v /\ MatchSection(lines[i]) = 0})

\* C1: when extract_sections has returned, every line that is not a
\* header-trigger line occurs in the blocks of the section map exactly as
\* often as in the input (none dropped, none duplicated).
C1_Partition ==
    seg_pc = "done" =>
        \A v \in SegLineSet :
            BlockCount(seg_st.sections, DOMAIN seg_st.sections, v)
                = InputCount(seg_text, v)

\* C7: the list extract_education returns holds no two entries with the same
\* (degree, institution) pair, and of the entries of `education` with one
\* pair it keeps the first.
C7_UniqueEducation ==
    edu_pc = "done" =>
        /\ \A a, b \in DOMAIN edu_unique :
               (edu_unique[a].degree = edu_unique[b].degree
                /\ edu_unique[a].institution = edu_unique[b].institution) => a = b
        /\ \A i \in DOMAIN education :
               \E a \in DOMAIN edu_unique :
                   /\ edu_unique[a].degree = education[i].degree
                   /\ edu_unique[a].institution = education[i].institution
                   /\ edu_unique[a] =
                          education[Min({j \in DOMAIN education :
                                            /\ education[j].degree = education[i].degree
                                            /\ education[j].institution
                                                   = education[i].institution})]

\* A returned list for which two matches gave one pair with a null
\* institution, and only the first of them was kept.
C7_Witness ==
    /\ edu_pc = "done"
    /\ \E i, j \in DOMAIN education :
           /\ i < j
           /\ education[i].degree = education[j].degree
           /\ ~education[i].institution.some
           /\ ~education[j].institution.some
    /\ Len(edu_unique) < Len(education)

\* The valid graduation years of a context window: the four-digit years
\* y with MinYear <= y <= CurrentYear that it holds.
ValidYearsIn(ctx) ==
    {YearInt(ctx[k]) : k \in {n \in DOMAIN ctx :
        ctx[n] \in YearToks /\ MinYear <= YearInt(ctx[n]) /\ YearInt(ctx[n]) <= CurrentYear}}

\* C8: the year of every education entry is the largest valid year of the
\* context window of its match, and null only when the window holds none.
C8_MaxValidYear ==
    \A i \in DOMAIN education :
        LET valid == ValidYearsIn(edu_ctxs[i])
        IN IF valid = {} THEN education[i].year = None
           ELSE education[i].year = Some(Max(valid))

\* The job texts handled so far in which the position or the company resolves.
ResolvedJobs ==
    {j \in 1..(exp_j - 1) :
        /\ Strip(job_splits[j]) # <<>>
        /\ LET first_line == Split(Strip(job_splits[j]))[1]
           IN Position(first_line).some \/ Company(first_line).some}

\* C9: every entry of the experience list has a non-null position or a
\* non-null company, and only job texts in which one of the two resolves
\* contribute an entry.
C9_PositionOrCompany ==
    /\ \A i \in DOMAIN experience :
           experience[i].position.some \/ experience[i].company.some
    /\ Len(experience) <= Cardinality(ResolvedJobs)

\* A finished run with an entry kept and a job text dropped because neither
\* its position nor its company resolves.
C9_Witness ==
    /\ exp_pc = "done"
    /\ Len(experience) >= 1
    /\ \E j \in DOMAIN job_splits : Strip(job_splits[j]) # <<>> /\ j \notin ResolvedJobs

\* C10: no experience entry has more than DescLimit description strings.
C10_DescriptionCapped ==
    \A i \in DOMAIN experience : Len(experience[i].description) <= DescLimit

ScoreNames == {"contact_info", "experience", "education", "skills", "overall"}

\* C6: each of the four sub-scores and the overall score lies in [0,100],
\* whatever the contact fields and the numbers of entries are.
C6_ScoresInRange ==
    \A k \in ScoreNames : 0 <= scores[k] /\ scores[k] <= ScoreMax * ScoreScale

\* A scored record whose three lists are each longer than its cap, with the
\* full overall score.
C6_Witness ==
    /\ score_pc = "done"
    /\ Len(score_data.experience) * ExpPoints > ScoreMax
    /\ Len(score_data.education) * EduPoints > ScoreMax
    /\ Len(score_data.skills) * SkillPoints > ScoreMax
    /\ scores.overall = ScoreMax * ScoreScale

\* C2: parse never raises: whether reading fails for an unsupported
\* extension, fails for an unreadable file, yields no text or succeeds, what
\* parse hands to its caller is a returned value, either an error-tagged
\* result or a record holding scores.
C2_ParseNeverRaises ==
    parse_pc = "done" =>
        /\ parse_out.some
        /\ ~parse_out.val.raised
        /\ \/ "error" \in DOMAIN parse_out.val.value
           \/ "scores" \in DOMAIN parse_out.val.value
        /\ parse_out.val = parse(parse_file)

\* A finished parse whose read_file raised.
C2_Witness ==
    /\ parse_pc = "done"
    /\ parse_exc.some
    /\ "error" \in DOMAIN parse_out.val.value

\* C3: every error-tagged result of parse carries an error message and the
\* path of the file that failed.
C3_ErrorCarriesFile ==
    (parse_pc = "done" /\ ~parse_out.val.raised /\ "error" \in DOMAIN parse_out.val.value) =>
        /\ parse_out.val.value.error # ""
        /\ "file" \in DOMAIN parse_out.val.value
        /\ parse_out.val.value.file = parse_file.path

\* What the batch owes a file whose parse hands back `expected`.
ResultFor(result, file_path, expected) ==
    IF "error" \in DOMAIN expected
    THEN /\ "error" \in DOMAIN result
         /\ "file" \in DOMAIN result
         /\ result.file = file_path
    ELSE result = expected

\* C4: a batch yields exactly one result per file of the directory, in
\* order: the result of a file that cannot be parsed is error-tagged and
\* carries that file's path, and every other file has its successful result.
C4_OneResultPerFile ==
    batch_pc = "done" =>
        /\ Len(results) = Len(batch_dir)
        /\ \A i \in DOMAIN results :
               ResultFor(results[i], batch_dir[i].path, parse(batch_dir[i]).value)

\* The indices of the results that are not error-tagged.
Successful == {i \in DOMAIN results : "error" \notin DOMAIN results[i]}

\* The k-th successful result.
KthSuccessful(k) ==
    results[CHOOSE i \in Successful : Cardinality({j \in Successful : j <= i}) = k]

\* C5: the CSV export holds exactly one row for each result that is not
\* error-tagged, in the order of the results, and none for the others.
C5_CsvRows ==
    csv.some =>
        /\ Len(csv.val) = Cardinality(Successful)
        /\ \A k \in DOMAIN csv.val : csv.val[k] = CsvLine(RowOf(KthSuccessful(k)))

\* An export of two different successful results with an error-tagged
\* result before them.
C5_Witness ==
    /\ csv.some
    /\ Len(csv.val) = 2
    /\ csv.val[1] # csv.val[2]
    /\ "error" \in DOMAIN results[1]

\* The canonical names of the skills of the taxonomy.
CanonicalNames ==
    UNION {{Canonical(skills_db[c].skills[k]) : k \in DOMAIN skills_db[c].skills} :
           c \in DOMAIN skills_db}

\* The results of the extract_skills calls made so far, in call order.
SkillResults ==
    LET idx == {i \in DOMAIN skl_calls : skl_calls[i].method = "extract_skills"}
    IN {skl_calls[i].result : i \in idx}

FirstNameShaped(lines) ==
    LET hits == {i \in DOMAIN lines : NameLike(lines[i])}
    IN IF hits = {} THEN None ELSE Some(lines[Min(hits)])

\* C12: when the first name-shaped line of the text is "Jane Smith
\* University Program", extract_name_nlp does not return that line, whatever
\* the recognizer reported and also when the basic extractor is fallen back
\* to.
C12_NoInstitutionName ==
    (nlp_pc = "done" /\ FirstNameShaped(nlp_text) = Some(InstitutionLine))
        => nlp_name # Some(InstitutionLine)


\* C13: when extract_projects has returned, the technologies of every
\* project hold no skill more than once and every element is a canonical
\* skill name, as extract_skills reports it.
C13_TechnologiesCanonicalSet ==
    proj_pc = "done" =>
        \A p \in DOMAIN projects :
            LET tech == projects[p].technologies
            IN /\ \A i, j \in DOMAIN tech : tech[i] = tech[j] => i = j
               /\ \A i \in DOMAIN tech : tech[i] \in CanonicalNames


\* The number of a month name, full or abbreviated.
MonthNumber(word) ==
    CASE word \in {"January", "Jan"} -> 1
      [] word \in {"March", "Mar"} -> 3
      [] OTHER -> 0

\* The month-span of a duration "month year - month year" or
\* "month year - Present"; a null duration spans no month.
MonthSpan(d, now) ==
    IF ~d.some THEN 0
    ELSE LET toks == d.val
             y2 == IF HasPresent(toks) THEN now.year ELSE YearInt(toks[5])
             m2 == IF HasPresent(toks) THEN now.month ELSE MonthNumber(toks[4])
         IN (y2 - YearInt(toks[2])) * 12 + (m2 - MonthNumber(toks[1]))

TotalSpan(exps, now) == SeqSum([i \in DOMAIN exps |-> MonthSpan(exps[i].duration, now)])

LabelOf(T) ==
    IF T < 24 THEN "Entry Level"
    ELSE IF T < 60 THEN "Mid Level"
    ELSE IF T < 120 THEN "Senior Level"
    ELSE "Expert/Executive Level"

\* C14: when analyze_experience_level has ended, it has returned (not
\* raised), and the label is "Entry Level" for no entries and otherwise the
\* label of T, the sum of the month-spans of the entries' durations.
C14_LevelOfTotalMonths ==
    lvl_pc = "done" =>
        /\ lvl_out.some
        /\ ~lvl_out.val.raised
        /\ lvl_out.val.value = IF lvl_experience = <<>> THEN "Entry Level"
                               ELSE LabelOf(TotalSpan(lvl_experience, lvl_now))


\* The NLP capability is missing: a package, the language model, or a name
\* the enhancement module needs to load.
NlpUnavailable ==
    \/ ~cli_env.spacy \/ ~cli_env.nltk \/ ~cli_env.model
    \/ "Optional" \notin cli_names

\* C15: a run without --advanced on a readable document, with the NLP
\* capability unavailable, ends having produced the basic result of parse.
C15_BasicRunsWithoutNlp ==
    (/\ cli_pc = "exited"
     /\ cli_path.kind = "file"
     /\ cli_path.file.readable /\ cli_path.file.path.ext \in ReadableExts
     /\ NlpUnavailable)
        => (cli_out.some /\ cli_out.val = parse(cli_path.file).value)

\* C16: a run whose modules loaded exits with code 1 if the path does not
\* exist and with code 0 otherwise.
C16_ExitCode ==
    (cli_pc = "exited" /\ ~ImportRaises(cli_env, cli_names))
        => cli_exit = (IF cli_path.kind = "missing" THEN <<1>> ELSE <<0>>)


\* The methods of a parse that runs to the end, in stage order: Reading,
\* Segmenting, the six extractors of Extracting, Scoring.
StageOrder ==
    <<"read_file", "extract_sections",
      "extract_contact_info", "extract_skills", "extract_education",
      "extract_experience", "extract_projects", "extract_certifications",
      "calculate_score">>

\* Reading failed or returned no text.
ReadingFailed == read_file(parse_file).raised \/ Join(read_file(parse_file).value) = <<>>

\* The order of the stages of a parse, as far as it has come.
StagesInOrder ==
    /\ parse_trace = SubSeq(StageOrder, 1, Len(parse_trace))
    /\ Len(parse_trace) >= 2 => ~ReadingFailed
    /\ parse_pc = "done" =>
        /\ parse_out.some /\ ~parse_out.val.raised
        /\ IF ReadingFailed
           THEN /\ parse_trace = <<"read_file">>
                /\ "error" \in DOMAIN parse_out.val.value
                /\ "scores" \notin DOMAIN parse_out.val.value
           ELSE /\ parse_trace = StageOrder
                /\ "scores" \in DOMAIN parse_out.val.value
                /\ "error" \notin DOMAIN parse_out.val.value

\* The positions of a parse in the order parse_resume goes through them; the
\* handler of line 579 comes after the reading and before the end.
Positions ==
    <<"read", "check", "extract_contact_info", "extract_skills", "extract_education",
      "extract_experience", "extract_projects", "extract_certifications", "score", "done">>

StageRank(pc) ==
    IF pc = "except" THEN 2 ELSE CHOOSE i \in DOMAIN Positions : Positions[i] = pc

\* Every step of a parse moves it to a later position, so that a parse takes
\* at most Len(Positions) steps; a position that is not the end has a step.
Advances == StageRank(parse_pc') > StageRank(parse_pc)

HasStep ==
    parse_pc \in {Positions[i] : i \in DOMAIN Positions} \cup {"except"}

TablesIntact ==
    /\ patterns = [email |-> EmailToks, phone |-> PhoneToks]
    /\ skills_db = load_skills_database
    /\ section_headers = SectionHeaders

\* C18: no step of a parse writes the pattern tables, the skills taxonomy or
\* the section-header table, and whatever the interleaving of the parses of
\* several documents on the shared tables, the result of each finished parse
\* is the result of parsing its document alone.
C18_ParsesIndependent ==
    /\ [](TablesIntact /\ \A w \in Workers :
            frames[w].pc = "done" => frames[w].out = Some(parse(frames[w].file)))
    /\ [][UNCHANGED table_vars]_vars

\* The second parse ran from its start to its success record while the
\* first, of another document, was between two of its extractors.
C18_Witness ==
    /\ frames # <<>>
    /\ frames[1].pc = "extract_education"
    /\ frames[2].pc = "done"
    /\ frames[1].file # frames[2].file
    /\ ~frames[2].out.val.raised
    /\ "scores" \in DOMAIN frames[2].out.val.value


\* What parse hands back is a success record: returned, and not error-tagged.
SuccessRecord(p) == ~p.raised /\ ~HasError(p.value)

\* C19: a document whose parse succeeds, with whatever null fields (a null
\* contact name among them), is processed to completion: its batch result
\* is that success record, not an error entry, and the record was saved.
C19_DegradedIsProcessed ==
    \A k \in DOMAIN results :
        SuccessRecord(parse(resume_files[k])) =>
            /\ results[k] = parse(resume_files[k]).value
            /\ \E path \in DOMAIN out_dir : out_dir[path] = results[k]

\* The documents of the batch whose result save_parsed_resume has written.
Saved == {k \in DOMAIN results : ~parse_single_resume(resume_files[k], 0).raised}

\* C20: the saved results of distinct documents are in distinct files: the
\* output directory holds one file for each document saved so far, none
\* overwritten by another document's, also for documents of the same
\* extracted name (or both error results) saved in the same clock second.
C20_SavedFilesDistinct == Cardinality(DOMAIN out_dir) = Cardinality(Saved)

====
